---- MODULE Spec2Model ----
(***************************************************************************)
(* Genie chat application: the polling / follow-up reconciliation engine   *)
(* of GenieClient (genie_client.py), the /api/ask route (app.py) and the   *)
(* ownership ledger (conversation_store.py), as a state machine.           *)
(*                                                                         *)
(* Strings are sequences of one-character strings, so that lower(),        *)
(* upper() and the substring tests of the code are computed, not assumed.  *)
(* Optional values: None is <<>>, a present value x is <<x>>.              *)
(* Time is counted in whole seconds.                                       *)
(***************************************************************************)
EXTENDS Integers, Sequences, FiniteSets, TLC

\* ------------------------------------------------------------------ bounds
\* timeout_seconds given to the constructor in Spec (the default is 600)
TimeoutSeconds == 24
\* largest max_retries a client is constructed with in RetrySpec
MaxRetriesBound == 3
\* messages the backend holds, over all conversations
MaxMsgs == 2
\* conversations the backend creates
MaxConvs == 2
\* questions the route serves in AppSpec
MaxRequests == 3
\* max_retries given to the constructor in Spec and AppSpec (the default is 3)
MainRetries == 1
\* failing invocations of remote calls the backend answers one question with
MaxFaults == 1
\* timeout_seconds given to the constructor in AppSpec
AppTimeoutSeconds == 4
\* words a status string of CallSpec is made of
MaxStatusWords == 3
\* messages of a listing of CallSpec
MaxListed == 3
\* attachments of a message of CallSpec
MaxAttachments == 2
\* rows of a query result of CallSpec
MaxRows == 1
\* largest initial_poll_interval and max_poll_interval given to the
\* constructor in IntervalSpec, and its timeout_seconds
MaxInitialInterval == 3
MaxIntervalCap == 4
IntervalTimeoutSeconds == 10
\* timeout_seconds given to the constructor in CapSpec: long enough for the
\* reconciler to use up its cycles before the deadline
CapTimeoutSeconds == 61
\* timeout_seconds given to the constructor in ChainSpec
ChainTimeoutSeconds == 5
\* max_retries given to the constructor in UnackedSpec
UnackedRetries == 2

\* ------------------------------------------------------- program constants
INITIAL_POLL_INTERVAL == 1
MAX_POLL_INTERVAL == 60
MAX_RETRIES == 3
RETRY_BASE_DELAY == 1
FOLLOW_UP_SETTLE_SECONDS == 3
FOLLOW_UP_INITIAL_STABLE_CHECKS == 3
FOLLOW_UP_CHAIN_STABLE_CHECKS == 6
MAX_FOLLOW_UP_CYCLES == 20

\* ------------------------------------------------------------------ strings
None == <<>>
Some(x) == <<x>>

UpperChars == <<"A","B","C","D","E","F","G","H","I","J","K","L","M",
                "N","O","P","Q","R","S","T","U","V","W","X","Y","Z">>
LowerChars == <<"a","b","c","d","e","f","g","h","i","j","k","l","m",
                "n","o","p","q","r","s","t","u","v","w","x","y","z">>

\* The function that maps from[i] to to[i] for i in 1..k
RECURSIVE CharMap(_, _, _)
CharMap(from, to, k) ==
    IF k = 1 THEN from[1] :> to[1]
    ELSE (from[k] :> to[k]) @@ CharMap(from, to, k - 1)

ToLower == CharMap(UpperChars, LowerChars, 26)
ToUpper == CharMap(LowerChars, UpperChars, 26)

LowerChar(c) == IF c \in DOMAIN ToLower THEN ToLower[c] ELSE c
UpperChar(c) == IF c \in DOMAIN ToUpper THEN ToUpper[c] ELSE c

\* str.lower() and str.upper()
Lower(s) == [i \in 1..Len(s) |-> LowerChar(s[i])]
Upper(s) == [i \in 1..Len(s) |-> UpperChar(s[i])]

\* Python's  needle in hay  on strings
Contains(hay, needle) ==
    \E i \in 0..(Len(hay) - Len(needle)) :
        SubSeq(hay, i + 1, i + Len(needle)) = needle

IND_CONNECTION == <<"c", "o", "n", "n", "e", "c", "t", "i", "o", "n">>
IND_TIMEOUT == <<"t", "i", "m", "e", "o", "u", "t">>
IND_RATE_LIMIT == <<"r", "a", "t", "e", " ", "l", "i", "m", "i", "t">>
IND_429 == <<"4", "2", "9">>
IND_500 == <<"5", "0", "0">>
IND_502 == <<"5", "0", "2">>
IND_503 == <<"5", "0", "3">>
IND_504 == <<"5", "0", "4">>
IND_UNAVAILABLE == <<"t", "e", "m", "p", "o", "r", "a", "r", "i", "l", "y", " ", "u", "n", "a", "v", "a", "i", "l", "a", "b", "l", "e">>

RETRYABLE_ERRORS ==
    { IND_CONNECTION, IND_TIMEOUT, IND_RATE_LIMIT, IND_429, IND_500,
      IND_502, IND_503, IND_504, IND_UNAVAILABLE }

\* str(e) of the exceptions the remote operations raise in this model
ERR_HTTP_503 == <<"H", "T", "T", "P", " ", "5", "0", "3">>
ERR_CONNECTION == <<"C", "o", "n", "n", "e", "c", "t", "i", "o", "n", " ", "r", "e", "s", "e", "t">>
ERR_BAD_SPACE == <<"i", "n", "v", "a", "l", "i", "d", " ", "a", "r", "g", "u", "m", "e", "n", "t", ":", " ", "b", "a", "d", " ", "s", "p", "a", "c", "e", " ", "i", "d">>
ERR_NOT_FOUND == <<"N", "o", "t", " ", "F", "o", "u", "n", "d">>

ErrorMessages == { ERR_HTTP_503, ERR_CONNECTION, ERR_BAD_SPACE, ERR_NOT_FOUND }

\* ------------------------------------------------------------------- state
VARIABLES
    timeout_seconds,        \* GenieClient.timeout_seconds
    initial_poll_interval,  \* GenieClient.initial_poll_interval
    max_poll_interval,      \* GenieClient.max_poll_interval
    max_retries,            \* GenieClient.max_retries
    now,                    \* time.time()
    msgs,                   \* backend: the messages, by message id: [conv, phase]
    nconv,                  \* backend: conversations created so far (ids 1..nconv)
    store,                  \* ConversationStore: the rows <<user_email, conversation_id>>
    askOk,                  \* history: <<user, conversation>> of every successful result of a new-conversation ask
    deleted,                \* history: <<user, conversation>> of every conversation the user deleted
    pc,                     \* where the request in flight stands
    req,                    \* the /api/ask request: [kind, user, conversation_id]
    start_time,             \* start_time of ask / continue_conversation
    poll,                   \* locals of the running _poll_for_result
    outer,                  \* the first _poll_for_result, suspended in _wait_for_final_message
    rec,                    \* locals of _wait_for_final_message
    result,                 \* the GenieResult returned to the route, None before
    obs,                    \* history of the request in flight: what the first poll observed of
                            \* its message, whether polling began, the status last fetched, the
                            \* poll that ended without success, the permanent error of the last
                            \* remote call, whether an exception escaped, results produced,
                            \* the latest message of the last listing and how many listings
                            \* in a row have shown it as the latest
    faults,                 \* failing invocations the backend still has for this question
    budget,                 \* requests the route still accepts in this run
    retry,                  \* the last _retry_with_backoff call of RetrySpec: its run and outcome
    call                    \* the last call of a function taken alone: its arguments and outcome

cfgvars == <<timeout_seconds, initial_poll_interval, max_poll_interval, max_retries>>
backendvars == <<msgs, nconv>>
appvars == <<store, askOk, deleted>>
reqvars == <<pc, req, start_time, poll, outer, rec, result, obs>>

vars == <<timeout_seconds, initial_poll_interval, max_poll_interval, max_retries,
          now, msgs, nconv, store, askOk, deleted, pc, req, start_time, poll, outer, rec,
          result, obs, faults, budget, retry, call>>

\* ------------------------------------------------------------ Retry Executor
MutAlwaysRetryable(error) == TRUE

\* _is_retryable_error: any indicator is a substring of str(error).lower()
_is_retryable_error(error) ==
    \E indicator \in RETRYABLE_ERRORS : Contains(Lower(error), indicator)

\* One invocation of func() ends in a value or in an exception.  A run gives
\* the outcome of each successive invocation and the jitter random.uniform(0, 1)
\* of each successive sleep; an invocation beyond the listed ones returns.
OkOutcome == [ok |-> TRUE, err |-> <<>>]
ErrOutcome(msg) == [ok |-> FALSE, err |-> msg]
OutcomeAt(run, k) == IF k <= Len(run.outs) THEN run.outs[k] ELSE OkOutcome
JitterAt(run, k) == IF k <= Len(run.jit) THEN run.jit[k] ELSE 0

Pow2(k) == IF k <= 0 THEN 1 ELSE 2 ^ k

\* wait_time = (RETRY_BASE_DELAY * (2 ** attempt)) + random.uniform(0, 1)
wait_time(attempt, jitter) == RETRY_BASE_DELAY * Pow2(attempt) + jitter

MutSleepAfterLast(attempt, n) == TRUE

\* if attempt < self.max_retries - 1: sleep before the next attempt
sleeps_before_retry(attempt, n) == attempt < n - 1

\* The locals of _retry_with_backoff while the for loop runs.
RetryLocals0 == [last_exception |-> None, invocations |-> 0, sleeps |-> <<>>]

RECURSIVE retry_loop(_, _, _, _)
retry_loop(run, n, attempt, loc) ==
    IF attempt >= n
    THEN \* raise last_exception
         [kind |-> "raise", exc |-> loc.last_exception, at |-> loc.invocations,
          invocations |-> loc.invocations, sleeps |-> loc.sleeps]
    ELSE LET out == OutcomeAt(run, attempt + 1)
             inv == loc.invocations + 1
         IN  IF out.ok
             THEN [kind |-> "return", exc |-> None, at |-> inv,
                   invocations |-> inv, sleeps |-> loc.sleeps]
             ELSE IF ~ _is_retryable_error(out.err)
             THEN [kind |-> "raise", exc |-> Some(out.err), at |-> inv,
                   invocations |-> inv, sleeps |-> loc.sleeps]
             ELSE LET w == wait_time(attempt, JitterAt(run, Len(loc.sleeps) + 1))
                      slept == IF sleeps_before_retry(attempt, n)
                               THEN Append(loc.sleeps, w) ELSE loc.sleeps
                  IN  retry_loop(run, n, attempt + 1,
                                 [last_exception |-> Some(out.err),
                                  invocations |-> inv, sleeps |-> slept])

\* _retry_with_backoff(func): what the call returns or raises (exc, raised by
\* invocation number at), how often func was invoked, and its sleeps.
_retry_with_backoff(run, n) == retry_loop(run, n, 0, RetryLocals0)

RECURSIVE SumSeq(_)
SumSeq(s) == IF s = <<>> THEN 0 ELSE Head(s) + SumSeq(Tail(s))

\* Sequences over S of length lo..hi
SeqsOf(S, lo, hi) == UNION { [1..k -> S] : k \in lo..hi }

\* The runs of a call with max_retries = n over the error messages E: every
\* listed outcome is consumed by an invocation and every jitter by a sleep.
RunsOver(E, n) ==
    { run \in [outs : SeqsOf({OkOutcome} \cup {ErrOutcome(m) : m \in E}, 1, n),
               jit  : SeqsOf({0, 1}, 0, n)] :
        LET res == _retry_with_backoff(run, n)
        IN  res.invocations = Len(run.outs) /\ Len(res.sleeps) = Len(run.jit) }

\* Every call of RetrySpec: <<max_retries, run, outcome>>.
RetryCalls ==
    UNION { { <<n, run, _retry_with_backoff(run, n)>> : run \in RunsOver(ErrorMessages, n) } :
            n \in 1..MaxRetriesBound }

\* No function has been called alone
NoCall == [fn |-> "none"]

NoRun == [outs |-> <<>>, jit |-> <<>>]
NoRetry == [n |-> 0, run |-> NoRun, res |-> _retry_with_backoff(NoRun, 0)]

\* What a remote call through _retry_with_backoff does to its caller: it
\* returns or raises exc, after invocations calls and slept seconds of sleep.
CallEffects ==
    { [n |-> c[1], kind |-> c[3].kind, exc |-> c[3].exc,
       retryable |-> c[3].exc # None /\ _is_retryable_error(c[3].exc[1]),
       invocations |-> c[3].invocations,
       failed |-> c[3].invocations - (IF c[3].kind = "return" THEN 1 ELSE 0),
       slept |-> SumSeq(c[3].sleeps),
       jitter |-> SumSeq(c[2].jit)] :
      c \in RetryCalls }

\* ------------------------------------------------------ Terminal State Evaluator
ST_EXECUTING == <<"E", "X", "E", "C", "U", "T", "I", "N", "G">>
ST_COMPLETED == <<"C", "O", "M", "P", "L", "E", "T", "E", "D">>
ST_FAILED == <<"F", "A", "I", "L", "E", "D">>
ST_CANCELLED == <<"C", "A", "N", "C", "E", "L", "L", "E", "D">>
ST_CANCELED == <<"C", "A", "N", "C", "E", "L", "E", "D">>
ST_ABORTED == <<"A", "B", "O", "R", "T", "E", "D">>
ST_UNKNOWN == <<"U", "N", "K", "N", "O", "W", "N">>

TERMINAL_SUCCESS_STATES == { ST_COMPLETED }
TERMINAL_FAILURE_STATES == { ST_FAILED, ST_CANCELLED, ST_CANCELED, ST_ABORTED }

MutSuccessWhatever(status) == TRUE

\* _get_status_string: str(status).upper(), "UNKNOWN" without a status attribute
_get_status_string(message) ==
    IF "status" \in DOMAIN message THEN Upper(message.status) ELSE ST_UNKNOWN

_is_terminal_success(status) ==
    \E t \in TERMINAL_SUCCESS_STATES : Contains(status, t)

MutFailureOnlyFailed(status) == Contains(status, ST_FAILED)

_is_terminal_failure(status) ==
    \E t \in TERMINAL_FAILURE_STATES : Contains(status, t)

\* _poll_for_result, lines 188-213: terminal success is tested first
poll_class(status) ==
    IF _is_terminal_success(status) THEN "terminal-success"
    ELSE IF _is_terminal_failure(status) THEN "terminal-failure"
    ELSE "non-terminal"

\* _wait_for_final_message, lines 279-289: terminal failure is tested first
reconciler_class(status) ==
    IF _is_terminal_failure(status) THEN "terminal-failure"
    ELSE IF _is_terminal_success(status) THEN "terminal-success"
    ELSE "non-terminal"

\* ---------------------------------------------------------------- Backoff Policy
Min(a, b) == IF a <= b THEN a ELSE b

_get_next_poll_interval(current_interval) ==
    Min(current_interval * 2, max_poll_interval)

\* ------------------------------------------------------------- Result Extractor
DigitChars == <<"0", "1", "2", "3", "4", "5", "6", "7", "8", "9">>

\* str(n) of a natural number
RECURSIVE Digits(_)
Digits(n) ==
    IF n < 10 THEN <<DigitChars[n + 1]>>
    ELSE Digits(n \div 10) \o <<DigitChars[(n % 10) + 1]>>

Whitespace == { " ", "\n", "\t" }

RECURSIVE LStrip(_)
LStrip(s) == IF s # <<>> /\ Head(s) \in Whitespace THEN LStrip(Tail(s)) ELSE s

RECURSIVE RStrip(_)
RStrip(s) ==
    IF s # <<>> /\ s[Len(s)] \in Whitespace THEN RStrip(SubSeq(s, 1, Len(s) - 1)) ELSE s

\* str.strip()
Strip(s) == RStrip(LStrip(s))

\* sep.join(texts)
RECURSIVE Join(_, _)
Join(texts, sep) ==
    IF texts = <<>> THEN <<>>
    ELSE IF Len(texts) = 1 THEN texts[1]
    ELSE texts[1] \o sep \o Join(Tail(texts), sep)

\* GenieResult(...): the dataclass, its optional fields None or <<value>>
GenieResult(success, raw_response, sql_query, error, elapsed_seconds, conversation_id, message_id) ==
    [success |-> success, raw_response |-> raw_response, sql_query |-> sql_query,
     error |-> error, elapsed_seconds |-> elapsed_seconds,
     conversation_id |-> conversation_id, message_id |-> message_id]

\* The for loop of _extract_result over message.attachments.  An attachment is
\* [query, text]: query None or <<sql>>, text None or <<content>>.
RECURSIVE extract_loop(_, _)
extract_loop(attachments, loc) ==
    IF attachments = <<>> THEN loc
    ELSE LET attachment == Head(attachments)
             has_query == attachment.query # None
             sql == IF has_query THEN attachment.query ELSE loc.sql_query
             qt == IF attachment.text # None /\ has_query
                   THEN Append(loc.query_texts, attachment.text[1])
                   ELSE loc.query_texts
             ot == IF attachment.text # None /\ ~has_query
                   THEN Append(loc.other_texts, attachment.text[1])
                   ELSE loc.other_texts
         IN  extract_loop(Tail(attachments),
                          [query_texts |-> qt, other_texts |-> ot, sql_query |-> sql])

MutExtractInAttachmentOrder(message) ==
    LET with_text == SelectSeq(message.attachments, LAMBDA a : a.text # None)
        texts == [i \in 1..Len(with_text) |-> with_text[i].text[1]]
        loc == extract_loop(message.attachments,
                            [query_texts |-> <<>>, other_texts |-> <<>>, sql_query |-> None])
    IN  GenieResult(TRUE, Strip(Join(texts, <<"\n">>)), loc.sql_query, None, None, None, None)

\* _extract_result(message): success=True, the joined and stripped texts
\* (answer texts first), the SQL query; the other fields keep their defaults.
_extract_result(message) ==
    LET loc == extract_loop(message.attachments,
                            [query_texts |-> <<>>, other_texts |-> <<>>, sql_query |-> None])
        raw_response == Join(loc.query_texts \o loc.other_texts, <<"\n">>)
    IN  GenieResult(TRUE, Strip(raw_response), loc.sql_query, None, None, None, None)

\* ------------------------------------------------------ Query Result Fetcher
\* What a block of code ends with: a returned value or an exception
Returned(value) == [kind |-> "return", value |-> value]
Raises(exc) == [kind |-> "raise", exc |-> exc]

MutQueryRaises(exc) == Raises(exc)

MutQueryExceptEmpty(exc) == Returned([columns |-> <<>>, rows |-> <<>>, total_rows |-> 0])

\* get_query_result, lines 458-460: except Exception as e
query_except(exc) ==
    Returned([error |-> <<"E", "x", "c", "e", "p", "t", "i", "o", "n", ":", " ">> \o exc])

\* [{"name": c.name, "type": str(c.type_name.value) if c.type_name else "STRING"} for c in cols]
column_dicts(cols) ==
    [i \in 1..Len(cols) |->
       [name |-> cols[i].name,
        type |-> IF cols[i].type_name # None THEN cols[i].type_name[1]
                 ELSE <<"S", "T", "R", "I", "N", "G">>]]

\* _fetch_statement_result(statement_id, columns); get_statement is what
\* _retry_with_backoff(get_stmt) ended with.  try_block is lines 464-495, an
\* exception is turned into an error dict by lines 496-498.  What it ends
\* with carries, as fetched, the statement_id that was asked for.
_fetch_statement_result(statement_id, get_statement, columns) ==
    LET statement == get_statement.value
        manifest == statement.manifest
        cols == IF /\ manifest # None
                   /\ manifest[1].schema # None
                   /\ manifest[1].schema[1].columns # None
                   /\ manifest[1].schema[1].columns[1] # <<>>
                THEN column_dicts(manifest[1].schema[1].columns[1])
                ELSE columns
        rows == IF statement.result # None /\ statement.result[1].data_array # None
                THEN statement.result[1].data_array[1]
                ELSE <<>>
        total_rows == IF manifest # None THEN manifest[1].total_row_count ELSE Len(rows)
        try_block ==
            IF get_statement.kind = "raise" THEN Raises(get_statement.exc)
            ELSE IF /\ statement.state # None
                    /\ statement.state[1] # <<>>
                    /\ statement.state[1] # <<"S", "U", "C", "C", "E", "E", "D", "E", "D">>
            THEN Returned([error |-> <<"S", "t", "a", "t", "e", "m", "e", "n", "t", " ", "n", "o", "t", " ", "s", "u", "c", "c", "e", "e", "d", "e", "d", " ", "(", "s", "t", "a", "t", "e", "=">>
                                     \o statement.state[1] \o <<")">>])
            ELSE Returned([columns |-> cols, rows |-> rows, total_rows |-> total_rows])
    IN  (IF try_block.kind = "raise"
         THEN Returned([error |-> <<"S", "t", "a", "t", "e", "m", "e", "n", "t", " ", "f", "e", "t", "c", "h", " ", "f", "a", "i", "l", "e", "d", ":", " ">>
                                  \o try_block.exc])
         ELSE try_block) @@ [fetched |-> <<statement_id>>]

\* get_query_result(conversation_id, message_id); get_result is what
\* _retry_with_backoff(get_result) ended with, get_statement what the remote
\* call of the fallback ends with.  try_block is lines 415-456 (the dash of
\* the texts of lines 425 and 428 is written -; a manifest without schema
\* raises AttributeError at line 432), an exception goes to query_except.
get_query_result(get_result, get_statement) ==
    LET stmt == get_result.value.statement_response
        schema == stmt[1].manifest[1].schema[1]
        columns == column_dicts(IF schema.columns # None THEN schema.columns[1] ELSE <<>>)
        rows == IF stmt[1].result # None THEN stmt[1].result[1].data_array ELSE None
        statement_id == stmt[1].statement_id
        try_block ==
            IF get_result.kind = "raise" THEN Raises(get_result.exc)
            ELSE IF stmt = None
            THEN Returned([error |-> <<"s", "t", "a", "t", "e", "m", "e", "n", "t", "_", "r", "e", "s", "p", "o", "n", "s", "e", " ", "i", "s", " ", "N", "o", "n", "e", " ", "-", " ", "q", "u", "e", "r", "y", " ", "m", "a", "y", " ", "s", "t", "i", "l", "l", " ", "b", "e", " ", "e", "x", "e", "c", "u", "t", "i", "n", "g">>])
            ELSE IF stmt[1].manifest = None
            THEN Returned([error |-> <<"m", "a", "n", "i", "f", "e", "s", "t", " ", "i", "s", " ", "N", "o", "n", "e", " ", "-", " ", "n", "o", " ", "s", "c", "h", "e", "m", "a", " ", "r", "e", "t", "u", "r", "n", "e", "d">>])
            ELSE IF stmt[1].manifest[1].schema = None
            THEN Raises(<<"'", "N", "o", "n", "e", "T", "y", "p", "e", "'", " ", "o", "b", "j", "e", "c", "t", " ", "h", "a", "s", " ", "n", "o", " ", "a", "t", "t", "r", "i", "b", "u", "t", "e", " ", "'", "c", "o", "l", "u", "m", "n", "s", "'">>)
            ELSE IF rows # None
            THEN Returned([columns |-> columns, rows |-> rows[1],
                           total_rows |-> stmt[1].manifest[1].total_row_count])
            ELSE IF statement_id = None \/ statement_id[1] = <<>>
            THEN Returned([columns |-> columns, rows |-> <<>>, total_rows |-> 0])
            ELSE _fetch_statement_result(statement_id[1], get_statement, columns)
    IN  IF try_block.kind = "raise" THEN query_except(try_block.exc) ELSE try_block

\* ------------------------------------------------------------------ the backend
\* The content of a message is fixed by its id: one attachment with the
\* generated query "Q<id>" and the answer text "A<id>".
AttachmentsOf(id) ==
    << [query |-> Some(<<"Q">> \o Digits(id)), text |-> Some(<<"A">> \o Digits(id))] >>

\* The backend keeps the phase of each message; the status it reports for a
\* message in that phase is one of these strings.
StatusStrings(phase) ==
    CASE phase = "completed" -> { ST_COMPLETED }
      [] phase = "failed"    -> { ST_FAILED, ST_CANCELLED, ST_CANCELED, ST_ABORTED }
      [] OTHER               -> { ST_EXECUTING }

\* The GenieMessage the backend returns for message id, with status and
\* last_updated_timestamp as given
MessageOf(id, status, ts) ==
    [message_id |-> id, status |-> status,
     last_updated_timestamp |-> ts, attachments |-> AttachmentsOf(id)]

MaxOf(S) == IF S = {} THEN 0 ELSE CHOOSE x \in S : \A y \in S : y <= x

RECURSIVE IdsAscending(_, _)
IdsAscending(c, i) ==
    IF i > Len(msgs) THEN <<>>
    ELSE (IF msgs[i].conv = c THEN <<i>> ELSE <<>>) \o IdsAscending(c, i + 1)

Reverse(s) == [i \in 1..Len(s) |-> s[Len(s) + 1 - i]]

\* list_conversation_messages: the messages of the conversation, oldest or
\* newest first, or nothing at all.  The code only asks which timestamp is
\* the largest, so a timestamp is 1 (among the latest updated) or 0, and one
\* message was updated after all others or all at the same instant; it reads
\* the status of the latest message only, which AfterListing supplies.
Listings(c) ==
    LET ids == IdsAscending(c, 1)
        stamps == { ts \in [1..Len(ids) -> {0, 1}] :
                      Cardinality({ i \in 1..Len(ids) : ts[i] = 1 }) \in {1, Len(ids)} }
        asc == { [i \in 1..Len(ids) |-> [message_id |-> ids[i],
                                          last_updated_timestamp |-> stamps_i[i]]] :
                 stamps_i \in stamps }
    IN  asc \cup { Reverse(items) : items \in asc } \cup { <<>> }

\* ------------------------------------------------------- Follow-up Reconciler
\* key=lambda m: getattr(m, 'last_updated_timestamp', 0) or 0
TimestampKey(m) ==
    IF "last_updated_timestamp" \in DOMAIN m THEN m.last_updated_timestamp ELSE 0

\* Python's max(items, key=...): the first item whose key is the largest
LatestMessage(items) ==
    LET top == MaxOf({ TimestampKey(items[i]) : i \in 1..Len(items) })
        first == CHOOSE i \in 1..Len(items) :
                    /\ TimestampKey(items[i]) = top
                    /\ \A j \in 1..(i - 1) : TimestampKey(items[j]) # top
    IN  items[first]

\* ---------------------------------------------------------------- the request
STR_QUERY_SP == <<"Q", "u", "e", "r", "y", " ">>
STR_TIMED_OUT_1 == <<"Q", "u", "e", "r", "y", " ", "t", "i", "m", "e", "d", " ", "o", "u", "t", " ", "a", "f", "t", "e", "r", " ">>
STR_TIMED_OUT_2 == <<" ", "s", "e", "c", "o", "n", "d", "s", ".">>
STR_NONE == <<"N", "o", "n", "e">>
STR_MESSAGE_ERROR == <<"M", "e", "s", "s", "a", "g", "e", "E", "r", "r", "o", "r", "(", "e", "r", "r", "o", "r", "=", "'", "b", "o", "o", "m", "'", ")">>

Users == { "alice" }

\* The exceptions the remote operations raise in Spec
MainErrors == { ERR_HTTP_503, ERR_BAD_SPACE }

\* The remote calls of Spec: whole seconds only, the jitter of a retry sleep
\* (a fraction of a second) is not counted.
MainEffects ==
    { e \in CallEffects : e.jitter = 0 /\ (e.exc = None \/ e.exc[1] \in MainErrors) }

\* The remote call e of the client: its failing invocations are taken from
\* the faults the backend still has for this question.
Calls(e) ==
    /\ e.n = max_retries
    /\ e.failed <= faults
    /\ faults' = faults - e.failed

NoReq == [kind |-> "none", user |-> "none", conversation_id |-> 0]
NoPoll == [conversation_id |-> 0, message_id |-> 0, start_time |-> 0,
           current_poll_interval |-> 0, check_follow_ups |-> FALSE]
NoOuter == [conversation_id |-> 0, message_id |-> 0, elapsed |-> 0]
NoRec == [original_id |-> 0, last_known_id |-> 0, consecutive_stable |-> 0,
          cycle |-> 0, listings |-> 0, exit |-> "none", final |-> "none"]
NoObs == [observed |-> "none", polled |-> FALSE, fetched |-> None,
          ended |-> None, perm |-> None,
          escaped |-> FALSE, produced |-> 0,
          same |-> 0, other |-> FALSE, fetch_failed |-> FALSE,
          second |-> 0, latest |-> 0, unchanged |-> 0]

\* The non-retryable exception a remote call raised, None if it raised none
PermOf(op, e) ==
    IF e.kind = "raise" /\ ~ e.retryable
    THEN Some([op |-> op, msg |-> e.exc[1]])
    ELSE None

\* getattr(message, 'error', f'Query {status}') as a string: the message has
\* no error attribute, or it is None, or it is a MessageError
MessageErrorStrings(status) == { STR_QUERY_SP \o status, STR_NONE, STR_MESSAGE_ERROR }

\* lines 201-210: the result of a poll that saw a terminal-failure status
failure_result(conversation_id, message_id, error_msg, elapsed) ==
    GenieResult(FALSE, <<>>, None, Some(error_msg), Some(elapsed),
                Some(conversation_id), Some(message_id))

\* lines 215-223: the result of a poll whose loop ran out of time
timeout_result(conversation_id, message_id, elapsed) ==
    GenieResult(FALSE, <<>>, None,
                Some(STR_TIMED_OUT_1 \o Digits(elapsed) \o STR_TIMED_OUT_2),
                Some(elapsed), Some(conversation_id), Some(message_id))

MutCompletedUnsuccessful(conversation_id, message_id, elapsed) == GenieResult(FALSE, <<>>, None, None, Some(elapsed), Some(conversation_id), Some(message_id))

\* lines 194-199 and 311-316: the extracted result of a completed message
completed_result(conversation_id, message_id, elapsed) ==
    [ _extract_result([attachments |-> AttachmentsOf(message_id)])
        EXCEPT !.elapsed_seconds = Some(elapsed),
               !.conversation_id = Some(conversation_id),
               !.message_id = Some(message_id) ]

MutAskRaises(exc, elapsed, conversation_id) == [escaped |-> TRUE, result |-> None]

MutAskHidesError(exc, elapsed, conversation_id) == [escaped |-> FALSE, result |-> Some(GenieResult(FALSE, <<>>, None, Some(STR_NONE), Some(elapsed), conversation_id, None))]

\* the except clause of ask (lines 341-349) and of continue_conversation
\* (lines 370-379): the exception becomes a failed GenieResult
ask_except(exc, elapsed, conversation_id) ==
    [escaped |-> FALSE,
     result |-> Some(GenieResult(FALSE, <<>>, None, Some(exc), Some(elapsed),
                                 conversation_id, None))]

\* /api/ask is called: a new question, or one continuing conversation c
Submit(user, c) ==
    /\ pc = "idle"
    /\ budget > 0
    /\ c <= nconv
    /\ c = 0 => nconv < MaxConvs
    /\ \A u \in Users : <<u, c>> \notin deleted
    /\ Len(msgs) < MaxMsgs
    /\ budget' = budget - 1
    /\ req' = [kind |-> IF c = 0 THEN "ask" ELSE "continue", user |-> user,
               conversation_id |-> c]
    /\ start_time' = now
    /\ pc' = "start"
    /\ UNCHANGED <<cfgvars, now, backendvars, appvars, poll, outer, rec, result, obs, faults, retry, call>>

\* ask / continue_conversation got its exception exc at time t
Raised(op, e, t, conversation_id) ==
    LET caught == ask_except(e.exc[1], t - start_time, conversation_id)
    IN  /\ result' = caught.result
        /\ obs' = [obs EXCEPT !.perm = PermOf(op, e), !.escaped = caught.escaped,
                              !.produced = IF caught.escaped THEN @ ELSE @ + 1]
        /\ pc' = "respond"
        /\ now' = t
        /\ UNCHANGED <<backendvars, poll, outer, rec>>

\* the first _poll_for_result of the question starts
StartPolling(c, m, t) ==
    /\ poll' = [conversation_id |-> c, message_id |-> m, start_time |-> start_time,
                current_poll_interval |-> initial_poll_interval,
                check_follow_ups |-> TRUE]
    /\ pc' = "poll"
    /\ now' = t
    /\ obs' = [obs EXCEPT !.perm = None, !.polled = TRUE]
    /\ UNCHANGED <<outer, rec, result>>

\* ask, lines 325-339: start_conversation through the Retry Executor
StartConversation ==
    /\ pc = "start"
    /\ req.kind = "ask"
    /\ \E e \in MainEffects :
         /\ Calls(e)
         /\ IF e.kind = "raise"
            THEN Raised("start_conversation", e, now + e.slept, None)
            ELSE /\ msgs' = Append(msgs, [conv |-> nconv + 1, phase |-> "pending"])
                 /\ nconv' = nconv + 1
                 /\ StartPolling(nconv + 1, Len(msgs) + 1, now + e.slept)
    /\ UNCHANGED <<cfgvars, appvars, req, start_time, budget, retry, call>>

\* continue_conversation, lines 354-368: create_message through the Retry Executor
CreateMessage ==
    /\ pc = "start"
    /\ req.kind = "continue"
    /\ \E e \in MainEffects :
         /\ Calls(e)
         /\ IF e.kind = "raise"
            THEN Raised("create_message", e, now + e.slept, Some(req.conversation_id))
            ELSE /\ msgs' = Append(msgs, [conv |-> req.conversation_id, phase |-> "pending"])
                 /\ nconv' = nconv
                 /\ StartPolling(req.conversation_id, Len(msgs) + 1, now + e.slept)
    /\ UNCHANGED <<cfgvars, appvars, req, start_time, budget, retry, call>>

MutReturnsNoneLate(r, t, o) ==
    /\ rec' = r
    /\ result' = Some(completed_result(outer.conversation_id, outer.message_id, t - start_time))
    /\ obs' = [o EXCEPT !.produced = @ + 1]
    /\ pc' = "respond"
    /\ now' = t
    /\ poll' = NoPoll
    /\ UNCHANGED outer

MutReturnsLastKnown(r, t, o) ==
    /\ rec' = r
    /\ result' = Some(completed_result(outer.conversation_id, r.last_known_id, outer.elapsed))
    /\ obs' = [o EXCEPT !.produced = @ + 1]
    /\ pc' = "respond"
    /\ now' = t
    /\ poll' = NoPoll
    /\ UNCHANGED outer

\* _wait_for_final_message returns None at time t: the first poll extracts
\* the message it saw complete (lines 194-199)
ReturnsNone(r, t, o) ==
    /\ rec' = r
    /\ result' = Some(completed_result(outer.conversation_id, outer.message_id, outer.elapsed))
    /\ obs' = [o EXCEPT !.produced = @ + 1]
    /\ pc' = "respond"
    /\ now' = t
    /\ poll' = NoPoll
    /\ UNCHANGED outer

\* _poll_for_result returns r at time t: to ask / continue_conversation, or,
\* for the nested poll, to _wait_for_final_message (lines 292-298)
PollReturns(r, t, o) ==
    IF poll.check_follow_ups
    THEN /\ result' = Some(r)
         /\ obs' = [o EXCEPT !.produced = @ + 1]
         /\ pc' = "respond"
         /\ now' = t
         /\ poll' = NoPoll
         /\ UNCHANGED <<outer, rec>>
    ELSE IF r.success
    THEN /\ rec' = [rec EXCEPT !.last_known_id = poll.message_id, !.cycle = @ + 1]
         /\ pc' = "reconcile"
         /\ now' = t
         /\ poll' = NoPoll
         /\ obs' = o
         /\ UNCHANGED <<outer, result>>
    ELSE ReturnsNone([rec EXCEPT !.exit = "nested_failed"], t, o)

MutPollAborts(t, o) == PollReturns(timeout_result(poll.conversation_id, poll.message_id, t - poll.start_time), t, o)

\* time.sleep(current_poll_interval) and the next interval (lines 181-183, 212-213)
PollSleeps(t, o) ==
    /\ now' = t + poll.current_poll_interval
    /\ poll' = [poll EXCEPT !.current_poll_interval = _get_next_poll_interval(@)]
    /\ obs' = o
    /\ pc' = "poll"
    /\ UNCHANGED <<outer, rec, result>>

\* the first poll saw its message complete: _wait_for_final_message starts
StartReconcile(t, elapsed, o) ==
    /\ outer' = [conversation_id |-> poll.conversation_id,
                 message_id |-> poll.message_id, elapsed |-> elapsed]
    /\ rec' = [NoRec EXCEPT !.original_id = poll.message_id,
                            !.last_known_id = poll.message_id]
    /\ obs' = o
    /\ pc' = "reconcile"
    /\ now' = t
    /\ poll' = NoPoll
    /\ UNCHANGED result

\* what a _poll_for_result that ends without success was polling, why it
\* ends and what it returns
Ended(why, r, o) ==
    [o EXCEPT !.ended = Some([why |-> why, conversation_id |-> poll.conversation_id,
                              message_id |-> poll.message_id,
                              check_follow_ups |-> poll.check_follow_ups, r |-> r])]

MutPollEarlyDeadline(elapsed) == 2 * elapsed < timeout_seconds

\* while time.time() - start_time < self.timeout_seconds
within_deadline(elapsed) == elapsed < timeout_seconds

\* _poll_for_result, lines 169-223: one turn of the while loop, or its end
PollStep ==
    /\ pc = "poll"
    /\ IF ~ within_deadline(now - poll.start_time)
       THEN /\ LET r == timeout_result(poll.conversation_id, poll.message_id,
                                       now - poll.start_time)
               IN  PollReturns(r, now, Ended("timeout", r, obs))
            /\ UNCHANGED faults
       ELSE \E e \in MainEffects :
              /\ Calls(e)
              /\ LET t == now + e.slept
                     o == [obs EXCEPT !.perm = PermOf("get_message", e)]
                 IN  IF e.kind = "raise"
                     THEN PollSleeps(t, [o EXCEPT !.fetch_failed = TRUE, !.fetched = None])
                     ELSE \E raw \in StatusStrings(msgs[poll.message_id].phase) :
                     LET message == MessageOf(poll.message_id, raw, 0)
                         status == _get_status_string(message)
                         elapsed == t - poll.start_time
                         got == [o EXCEPT !.fetched = Some(raw)]
                         seen(what) == IF poll.check_follow_ups
                                       THEN [got EXCEPT !.observed = what] ELSE got
                     IN
                     IF _is_terminal_success(status)
                     THEN IF poll.check_follow_ups
                          THEN StartReconcile(t, elapsed, seen("success"))
                          ELSE PollReturns(completed_result(poll.conversation_id,
                                               poll.message_id, elapsed), t, got)
                     ELSE IF _is_terminal_failure(status)
                     THEN \E error_msg \in MessageErrorStrings(status) :
                            LET r == failure_result(poll.conversation_id,
                                         poll.message_id, error_msg, elapsed)
                            IN  PollReturns(r, t, Ended("failure", r, seen("failure")))
                     ELSE PollSleeps(t, got)
    /\ UNCHANGED <<cfgvars, backendvars, appvars, req, start_time, budget, retry, call>>

\* break (lines 237, 250, 254) or the end of the for loop: on to line 300
LoopExit(why, r, t, o) ==
    /\ rec' = [r EXCEPT !.exit = why]
    /\ pc' = "final"
    /\ now' = t
    /\ obs' = o
    /\ UNCHANGED <<poll, outer, result>>

\* continue (lines 275, 289): the next cycle
NextCycle(r, t, o) ==
    /\ rec' = [r EXCEPT !.cycle = @ + 1]
    /\ pc' = "reconcile"
    /\ now' = t
    /\ obs' = o
    /\ UNCHANGED <<poll, outer, result>>

MutRequiredAlwaysChain(last_known_id, original_id) == FOLLOW_UP_CHAIN_STABLE_CHECKS

MutRequiredAlwaysInitial(last_known_id, original_id) == FOLLOW_UP_INITIAL_STABLE_CHECKS

\* required = FOLLOW_UP_INITIAL_STABLE_CHECKS if last_known_id == original_id
\*            else FOLLOW_UP_CHAIN_STABLE_CHECKS
required_checks(last_known_id, original_id) ==
    IF last_known_id = original_id
    THEN FOLLOW_UP_INITIAL_STABLE_CHECKS
    ELSE FOLLOW_UP_CHAIN_STABLE_CHECKS

MutNestedStartNow(t) == t

MutNestedChecksFollowUps == TRUE

\* line 293: _check_follow_ups=False
nested_check_follow_ups == FALSE

\* lines 292-293: the start_time the nested poll is given at time t is the
\* one _wait_for_final_message was given
nested_start_time(t) == start_time

\* lines 252-298: the cycle after the listing returned items
AfterListing(items, r, t, o0) ==
    IF items = <<>> THEN LoopExit("empty", r, t, o0)
    ELSE \E raw \in StatusStrings(msgs[LatestMessage(items).message_id].phase) :
         LET latest_msg == MessageOf(LatestMessage(items).message_id, raw,
                                     LatestMessage(items).last_updated_timestamp)
             latest_id == latest_msg.message_id
             status == _get_status_string(latest_msg)
             o1 == IF latest_id = r.original_id /\ ~ o0.other
                   THEN [o0 EXCEPT !.same = @ + 1]
                   ELSE [o0 EXCEPT !.same = 0, !.other = TRUE]
             o == [o1 EXCEPT !.latest = latest_id,
                             !.unchanged = IF latest_id = o0.latest THEN @ + 1 ELSE 1]
         IN  IF latest_id = r.last_known_id
             THEN LET stable == [r EXCEPT !.consecutive_stable = @ + 1]
                  IN  IF stable.consecutive_stable
                           >= required_checks(r.last_known_id, r.original_id)
                      THEN ReturnsNone([stable EXCEPT !.exit = "stable"], t, o)
                      ELSE NextCycle(stable, t, o)
             ELSE LET reset == [r EXCEPT !.consecutive_stable = 0]
                  IN  IF _is_terminal_failure(status)
                      THEN ReturnsNone([reset EXCEPT !.exit = "followup_failed"], t, o)
                      ELSE IF _is_terminal_success(status)
                      THEN NextCycle([reset EXCEPT !.last_known_id = latest_id], t, o)
                      ELSE /\ poll' = [conversation_id |-> outer.conversation_id,
                                       message_id |-> latest_id,
                                       start_time |-> nested_start_time(t),
                                       current_poll_interval |-> initial_poll_interval,
                                       check_follow_ups |-> nested_check_follow_ups]
                           /\ rec' = reset
                           /\ pc' = "poll"
                           /\ now' = t
                           /\ obs' = o
                           /\ UNCHANGED <<outer, result>>

MutNoCycleCap(cycle) == TRUE

\* for cycle in range(self.MAX_FOLLOW_UP_CYCLES)
cycles_left(cycle) == cycle < MAX_FOLLOW_UP_CYCLES

\* _wait_for_final_message, lines 234-298: one cycle of the for loop
ReconcileCycle ==
    /\ pc = "reconcile"
    /\ IF ~ cycles_left(rec.cycle)
       THEN LoopExit("cap", rec, now, obs) /\ UNCHANGED faults
       ELSE IF now - start_time >= timeout_seconds
       THEN LoopExit("deadline", rec, now, obs) /\ UNCHANGED faults
       ELSE \E e \in MainEffects :
              /\ Calls(e)
              /\ LET t == now + FOLLOW_UP_SETTLE_SECONDS + e.slept
                     r == [rec EXCEPT !.listings = @ + 1]
                     o == [obs EXCEPT !.perm = PermOf("list_conversation_messages", e)]
                 IN  IF e.kind = "raise" THEN LoopExit("list_error", r, t, o)
                     ELSE \E items \in Listings(outer.conversation_id) :
                            AfterListing(items, r, t, o)
    /\ UNCHANGED <<cfgvars, backendvars, appvars, req, start_time, budget, retry, call>>

MutFinalFetchSkipped == pc = "final" /\ ReturnsNone(rec, now, obs) /\ UNCHANGED <<cfgvars, backendvars, appvars, req, start_time, faults, budget, retry, call>>

\* _wait_for_final_message, lines 300-320: after the loop
FinalFetch ==
    /\ pc = "final"
    /\ IF rec.last_known_id # rec.original_id
       THEN \E e \in MainEffects :
              /\ Calls(e)
              /\ LET t == now + e.slept
                     o == [obs EXCEPT !.perm = PermOf("get_message (final)", e)]
                 IN  IF e.kind = "raise"
                     THEN ReturnsNone([rec EXCEPT !.final = "error"], t, o)
                     ELSE /\ result' = Some(completed_result(outer.conversation_id,
                                                rec.last_known_id, t - start_time))
                          /\ rec' = [rec EXCEPT !.final = "ok"]
                          /\ obs' = [o EXCEPT !.produced = @ + 1]
                          /\ pc' = "respond"
                          /\ now' = t
                          /\ poll' = NoPoll
                          /\ UNCHANGED outer
       ELSE ReturnsNone(rec, now, obs) /\ UNCHANGED faults
    /\ UNCHANGED <<cfgvars, backendvars, appvars, req, start_time, budget, retry, call>>

MutRecordWithoutSuccess(r, conversation_id) == r # None /\ r[1].conversation_id # None

\* app.py line 63: if result.success and result.conversation_id
route_updates_store(r, conversation_id) ==
    r # None /\ r[1].success /\ r[1].conversation_id # None

\* ConversationStore.record: INSERT one row
record(rows, user_email, conversation_id) ==
    rows \cup { <<user_email, conversation_id>> }

\* ConversationStore.touch: UPDATE updated_at of the rows that match
touch(rows, user_email, conversation_id) ==
    rows

\* ConversationStore.remove: DELETE the rows that match
remove(rows, user_email, conversation_id) ==
    rows \ { <<user_email, conversation_id>> }

\* app.py ask, lines 63-84: the ledger is updated and the response is sent.
\* _execute swallows a failed statement, so a statement may have no effect.
Respond ==
    /\ pc = "respond"
    /\ \E executed \in BOOLEAN :
         store' = IF route_updates_store(result, req.conversation_id) /\ executed
                  THEN IF req.conversation_id = 0
                       THEN record(store, req.user, result[1].conversation_id[1])
                       ELSE touch(store, req.user, result[1].conversation_id[1])
                  ELSE store
    /\ askOk' = IF req.kind = "ask" /\ result # None /\ result[1].success
                THEN askOk \cup { <<req.user, result[1].conversation_id[1]>> }
                ELSE askOk
    /\ deleted' = deleted
    /\ pc' = "idle"
    /\ req' = NoReq
    /\ poll' = NoPoll
    /\ outer' = NoOuter
    /\ rec' = NoRec
    /\ result' = None
    /\ obs' = NoObs
    /\ faults' = MaxFaults
    /\ now' = 0
    /\ start_time' = 0
    /\ UNCHANGED <<cfgvars, backendvars, budget, retry, call>>

\* ------------------------------------------------------------ backend events
\* a message being processed completes or fails.  Only a message the client
\* may fetch or list next is followed: the one being polled, or, during
\* reconciliation, those of the conversation.
BackendProgress ==
    /\ \E m \in 1..Len(msgs), phase \in { "completed", "failed" } :
         /\ msgs[m].phase = "pending"
         /\ \/ pc = "poll" /\ m = poll.message_id
            \/ pc = "reconcile" /\ msgs[m].conv = outer.conversation_id
         /\ msgs' = [msgs EXCEPT ![m].phase = phase]
    /\ UNCHANGED <<cfgvars, now, nconv, appvars, reqvars, faults, budget, retry, call>>

\* the conversation of the question in flight
ConvInFlight ==
    IF outer.conversation_id # 0 THEN outer.conversation_id ELSE poll.conversation_id

\* a further message appears in the conversation of the question in flight:
\* the agent chains a follow-up, or somebody asks another question in it.
\* The client sees it in a listing at the earliest.
BackendSpawn ==
    /\ pc = "reconcile"
    /\ Len(msgs) < MaxMsgs
    /\ msgs' = Append(msgs, [conv |-> ConvInFlight, phase |-> "pending"])
    /\ UNCHANGED <<cfgvars, now, nconv, appvars, reqvars, faults, budget, retry, call>>

\* ------------------------------------------------------------------------ Spec
Init ==
    /\ timeout_seconds = TimeoutSeconds
    /\ initial_poll_interval = INITIAL_POLL_INTERVAL
    /\ max_poll_interval = MAX_POLL_INTERVAL
    /\ max_retries = MainRetries
    /\ now = 0
    /\ \/ msgs = <<>> /\ nconv = 0
       \/ msgs = << [conv |-> 1, phase |-> "completed"] >> /\ nconv = 1
    /\ store = {}
    /\ askOk = {}
    /\ deleted = {}
    /\ pc = "idle"
    /\ req = NoReq
    /\ start_time = 0
    /\ poll = NoPoll
    /\ outer = NoOuter
    /\ rec = NoRec
    /\ result = None
    /\ obs = NoObs
    /\ faults = MaxFaults
    /\ budget = 1
    /\ retry = NoRetry
    /\ call = NoCall

Next ==
    \/ \E user \in Users, c \in 0..MaxConvs : Submit(user, c)
    \/ StartConversation
    \/ CreateMessage
    \/ PollStep
    \/ ReconcileCycle
    \/ FinalFetch
    \/ Respond
    \/ BackendProgress
    \/ BackendSpawn

Spec == Init /\ [][Next]_vars

\* ------------------------------------------------------------------ AppSpec
\* The route serves several questions one after the other, of a client with a
\* short timeout_seconds.
AppInit ==
    /\ timeout_seconds = AppTimeoutSeconds
    /\ initial_poll_interval = INITIAL_POLL_INTERVAL
    /\ max_poll_interval = MAX_POLL_INTERVAL
    /\ max_retries = MainRetries
    /\ now = 0
    /\ \/ msgs = <<>> /\ nconv = 0
       \/ msgs = << [conv |-> 1, phase |-> "completed"] >> /\ nconv = 1
    /\ store = {}
    /\ askOk = {}
    /\ deleted = {}
    /\ pc = "idle"
    /\ req = NoReq
    /\ start_time = 0
    /\ poll = NoPoll
    /\ outer = NoOuter
    /\ rec = NoRec
    /\ result = None
    /\ obs = NoObs
    /\ faults = MaxFaults
    /\ budget = MaxRequests
    /\ retry = NoRetry
    /\ call = NoCall

AppSpec == AppInit /\ [][Next]_vars

\* ----------------------------------------------------------------- RaceSpec
\* The application serves another request while a question is being
\* reconciled: continue_conversation of the same conversation, lines 354-366,
\* creates the message of a second question.  Of the second request only this
\* message is followed, its own poll and answer touch nothing the first
\* request reads.
SecondQuestion ==
    /\ pc = "reconcile"
    /\ budget > 0
    /\ obs.second = 0
    /\ Len(msgs) < MaxMsgs
    /\ budget' = budget - 1
    /\ msgs' = Append(msgs, [conv |-> outer.conversation_id, phase |-> "pending"])
    /\ obs' = [obs EXCEPT !.second = Len(msgs) + 1]
    /\ UNCHANGED <<cfgvars, now, nconv, appvars, pc, req, start_time, poll, outer, rec, result, faults, retry, call>>

RaceNext == Next \/ SecondQuestion

\* ---------------------------------------------------------------- StoreSpec
\* app.py delete_conversation, lines 150-164: the conversation is deleted in
\* Genie (GenieClient.delete_conversation returns False when the remote call
\* failed) and then removed from the ledger; _execute swallows a failed
\* statement, so the DELETE may have no effect.
DeleteConversation ==
    /\ pc = "idle"
    /\ budget > 0
    /\ budget' = budget - 1
    /\ \E user \in Users, c \in 1..nconv, success \in BOOLEAN, executed \in BOOLEAN :
         /\ <<user, c>> \notin deleted
         /\ IF success
            THEN /\ store' = IF executed THEN remove(store, user, c) ELSE store
                 /\ deleted' = deleted \cup { <<user, c>> }
            ELSE UNCHANGED <<store, deleted>>
    /\ UNCHANGED <<cfgvars, now, backendvars, askOk, reqvars, faults, retry, call>>

\* app.py list_conversations, lines 93-117: the rows get_conversations reads
\* for the user (none when _execute failed), each enriched with what
\* GenieClient.list_conversations returned for it (genie_lookup: some of the
\* conversations, none when the remote call failed)
ListConversations ==
    /\ pc = "idle"
    /\ budget > 0
    /\ budget' = budget - 1
    /\ \E user \in Users, executed \in BOOLEAN, genie_lookup \in SUBSET (1..nconv) :
         LET delta_conversations ==
                 IF executed THEN { row[2] : row \in { r \in store : r[1] = user } } ELSE {}
         IN  call' = [fn |-> "list_conversations", user |-> user,
                      conversations |-> { [id |-> c, enriched |-> c \in genie_lookup] :
                                          c \in delta_conversations }]
    /\ UNCHANGED <<cfgvars, now, backendvars, appvars, reqvars, faults, retry>>

StoreNext == Next \/ DeleteConversation \/ ListConversations

StoreSpec == AppInit /\ [][StoreNext]_vars

RaceSpec == AppInit /\ [][RaceNext]_vars

\* ---------------------------------------------------------------- ChainSpec
\* One question to a client with a short timeout_seconds, whose answer the
\* agent follows up with a chain of further messages: up to MaxMsgs of them
\* after the message of the question.
ChainInit ==
    /\ timeout_seconds = ChainTimeoutSeconds
    /\ initial_poll_interval = INITIAL_POLL_INTERVAL
    /\ max_poll_interval = MAX_POLL_INTERVAL
    /\ max_retries = MainRetries
    /\ now = 0
    /\ \/ msgs = <<>> /\ nconv = 0
       \/ msgs = << [conv |-> 1, phase |-> "completed"] >> /\ nconv = 1
    /\ store = {}
    /\ askOk = {}
    /\ deleted = {}
    /\ pc = "idle"
    /\ req = NoReq
    /\ start_time = 0
    /\ poll = NoPoll
    /\ outer = NoOuter
    /\ rec = NoRec
    /\ result = None
    /\ obs = NoObs
    /\ faults = MaxFaults
    /\ budget = 1
    /\ retry = NoRetry
    /\ call = NoCall

\* the agent chains a further follow-up to the answer being reconciled
ChainSpawn ==
    /\ pc = "reconcile"
    /\ Cardinality({ m \in 1..Len(msgs) : /\ msgs[m].conv = outer.conversation_id
                                          /\ m > outer.message_id }) < MaxMsgs
    /\ msgs' = Append(msgs, [conv |-> outer.conversation_id, phase |-> "pending"])
    /\ UNCHANGED <<cfgvars, now, nconv, appvars, reqvars, faults, budget, retry, call>>

ChainNext == Next \/ ChainSpawn

ChainSpec == ChainInit /\ [][ChainNext]_vars

\* -------------------------------------------------------------- UnackedSpec
\* One question to a client that retries, with a backend at which an
\* invocation of start_conversation or create_message may take effect although
\* the client is answered with a retryable error (the reply is lost, the
\* gateway times out): _retry_with_backoff then calls func() again, with the
\* same arguments.
UnackedInit ==
    /\ timeout_seconds = AppTimeoutSeconds
    /\ initial_poll_interval = INITIAL_POLL_INTERVAL
    /\ max_poll_interval = MAX_POLL_INTERVAL
    /\ max_retries = UnackedRetries
    /\ now = 0
    /\ \/ msgs = <<>> /\ nconv = 0
       \/ msgs = << [conv |-> 1, phase |-> "completed"] >> /\ nconv = 1
    /\ store = {}
    /\ askOk = {}
    /\ deleted = {}
    /\ pc = "idle"
    /\ req = NoReq
    /\ start_time = 0
    /\ poll = NoPoll
    /\ outer = NoOuter
    /\ rec = NoRec
    /\ result = None
    /\ obs = NoObs
    /\ faults = MaxFaults
    /\ budget = 1
    /\ retry = NoRetry
    /\ call = NoCall

\* the invocations of the remote call e that raised a retryable error: all
\* the failing ones, but the last when it raised a non-retryable error
RetryableFailures(e) ==
    e.failed - (IF e.kind = "raise" /\ ~ e.retryable THEN 1 ELSE 0)

\* ask, lines 325-349: start_conversation through the Retry Executor; took of
\* the invocations that raised a retryable error started a conversation
\* all the same, and the invocation that returned started the one the client
\* knows of
StartConversationUnacked ==
    /\ pc = "start"
    /\ req.kind = "ask"
    /\ \E e \in MainEffects :
         /\ Calls(e)
         /\ \E took \in 0..RetryableFailures(e) :
              LET created == took + (IF e.kind = "raise" THEN 0 ELSE 1)
                  t == now + e.slept
                  caught == ask_except(e.exc[1], t - start_time, None)
              IN  /\ msgs' = msgs \o [i \in 1..created |->
                                         [conv |-> nconv + i, phase |-> "pending"]]
                  /\ nconv' = nconv + created
                  /\ IF e.kind = "raise"
                     THEN /\ result' = caught.result
                          /\ obs' = [obs EXCEPT !.perm = PermOf("start_conversation", e),
                                                !.escaped = caught.escaped,
                                                !.produced = IF caught.escaped THEN @ ELSE @ + 1]
                          /\ pc' = "respond"
                          /\ now' = t
                          /\ UNCHANGED <<poll, outer, rec>>
                     ELSE StartPolling(nconv + created, Len(msgs) + created, t)
    /\ UNCHANGED <<cfgvars, appvars, req, start_time, budget, retry, call>>

\* continue_conversation, lines 354-379: create_message through the Retry
\* Executor; took of the invocations that raised a retryable error created a
\* message all the same
CreateMessageUnacked ==
    /\ pc = "start"
    /\ req.kind = "continue"
    /\ \E e \in MainEffects :
         /\ Calls(e)
         /\ \E took \in 0..RetryableFailures(e) :
              LET created == took + (IF e.kind = "raise" THEN 0 ELSE 1)
                  t == now + e.slept
                  caught == ask_except(e.exc[1], t - start_time, Some(req.conversation_id))
              IN  /\ msgs' = msgs \o [i \in 1..created |->
                                         [conv |-> req.conversation_id, phase |-> "pending"]]
                  /\ nconv' = nconv
                  /\ IF e.kind = "raise"
                     THEN /\ result' = caught.result
                          /\ obs' = [obs EXCEPT !.perm = PermOf("create_message", e),
                                                !.escaped = caught.escaped,
                                                !.produced = IF caught.escaped THEN @ ELSE @ + 1]
                          /\ pc' = "respond"
                          /\ now' = t
                          /\ UNCHANGED <<poll, outer, rec>>
                     ELSE StartPolling(req.conversation_id, Len(msgs) + created, t)
    /\ UNCHANGED <<cfgvars, appvars, req, start_time, budget, retry, call>>

UnackedNext ==
    \/ \E user \in Users, c \in 0..MaxConvs : Submit(user, c)
    \/ StartConversationUnacked
    \/ CreateMessageUnacked
    \/ PollStep
    \/ ReconcileCycle
    \/ FinalFetch
    \/ Respond
    \/ BackendProgress
    \/ BackendSpawn

UnackedSpec == UnackedInit /\ [][UnackedNext]_vars

\* ------------------------------------------------------------------ CapSpec
\* One question to a client whose timeout_seconds leaves the reconciler the
\* time for all its cycles, and whose remote calls all succeed.  The
\* conversation holds the message of the question and, when it is continued,
\* one older message, processed or still in process; each listing shows
\* either as the latest.  The client runs on: a step of ask /
\* continue_conversation that can be taken is taken eventually.
CapInit ==
    /\ timeout_seconds = CapTimeoutSeconds
    /\ initial_poll_interval = INITIAL_POLL_INTERVAL
    /\ max_poll_interval = MAX_POLL_INTERVAL
    /\ max_retries = MainRetries
    /\ now = 0
    /\ \/ msgs = <<>> /\ nconv = 0
       \/ \E phase \in { "pending", "completed" } :
            msgs = << [conv |-> 1, phase |-> phase] >> /\ nconv = 1
    /\ store = {}
    /\ askOk = {}
    /\ deleted = {}
    /\ pc = "idle"
    /\ req = NoReq
    /\ start_time = 0
    /\ poll = NoPoll
    /\ outer = NoOuter
    /\ rec = NoRec
    /\ result = None
    /\ obs = NoObs
    /\ faults = 0
    /\ budget = 1
    /\ retry = NoRetry
    /\ call = NoCall

ClientStep == StartConversation \/ CreateMessage \/ PollStep \/ ReconcileCycle \/ FinalFetch

CapNext ==
    \/ \E user \in Users, c \in 0..MaxConvs : Submit(user, c)
    \/ ClientStep
    \/ Respond
    \/ BackendProgress

CapSpec == CapInit /\ [][CapNext]_vars /\ WF_vars(ClientStep)

\* ------------------------------------------------------------- IntervalSpec
\* One question of a client constructed with some initial_poll_interval and
\* max_poll_interval; the constructor (lines 91-108) takes any pair.  No
\* remote call fails.
IntervalInit ==
    /\ timeout_seconds = IntervalTimeoutSeconds
    /\ initial_poll_interval \in 1..MaxInitialInterval
    /\ max_poll_interval \in 1..MaxIntervalCap
    /\ max_retries = MainRetries
    /\ now = 0
    /\ \/ msgs = <<>> /\ nconv = 0
       \/ msgs = << [conv |-> 1, phase |-> "completed"] >> /\ nconv = 1
    /\ store = {}
    /\ askOk = {}
    /\ deleted = {}
    /\ pc = "idle"
    /\ req = NoReq
    /\ start_time = 0
    /\ poll = NoPoll
    /\ outer = NoOuter
    /\ rec = NoRec
    /\ result = None
    /\ obs = NoObs
    /\ faults = 0
    /\ budget = 1
    /\ retry = NoRetry
    /\ call = NoCall

IntervalSpec == IntervalInit /\ [][Next]_vars

\* ----------------------------------------------------------------- CallSpec
\* Functions of the client taken alone: the call is drawn by CallInit, the
\* action of the function applies it.
\*
\* The Terminal State Evaluator, on the messages a backend of any version may
\* send: the status is a string of a few words, in any case, or the message
\* has no status attribute.
RECURSIVE Concat(_)
Concat(words) == IF words = <<>> THEN <<>> ELSE Head(words) \o Concat(Tail(words))

StatusCalls ==
    LET StatusWords == { ST_COMPLETED, ST_FAILED, ST_ABORTED, ST_EXECUTING,
                         <<"p", "e", "n", "d", "i", "n", "g">>, <<"_">> }
        StatusMessages ==
            { [message_id |-> 1] }
            \cup { [message_id |-> 1, status |-> Concat(ws)] :
                   ws \in SeqsOf(StatusWords, 1, MaxStatusWords) }
    IN  { [fn |-> "classify", returned |-> FALSE, message |-> m] : m \in StatusMessages }

\* The listings _wait_for_final_message may be given: some of the messages
\* 1..MaxListed in any order, each with a last_updated_timestamp, and the
\* last_known_id it holds, a message of the listing or one that is not in it
LatestCalls ==
    LET Orders == { o \in SeqsOf(1..MaxListed, 1, MaxListed) :
                      \A i, j \in 1..Len(o) : i # j => o[i] # o[j] }
        ListedItems ==
            UNION { { [i \in 1..Len(o) |-> [message_id |-> o[i],
                                             last_updated_timestamp |-> ts[i]]] :
                      ts \in [1..Len(o) -> {0, 1}] } : o \in Orders }
    IN  { [fn |-> "latest", returned |-> FALSE, items |-> items, last_known_id |-> id] :
          items \in ListedItems, id \in 1..MaxListed }

\* The completed messages _extract_result may be given: up to MaxAttachments
\* attachments, each with or without a generated query and with or without
\* a text; a text may end with a line that offers a follow-up, or have white
\* space around it.
ExtractCalls ==
    LET TXT_ANSWER == <<"T", "o", "t", "a", "l", " ", "i", "s", " ", "5", ".">>
        TXT_FOLLOW_UP == <<"W", "o", "u", "l", "d", " ", "y", "o", "u", " ", "l", "i", "k", "e", " ", "m", "o", "r", "e", "?">>
        AttachmentShapes ==
            { [query |-> q, text |-> t] :
              q \in { None, Some(<<"Q", "1">>), Some(<<"Q", "2">>) },
              t \in { None, Some(TXT_ANSWER), Some(TXT_FOLLOW_UP),
                      Some(TXT_ANSWER \o <<"\n">> \o TXT_FOLLOW_UP),
                      Some(<<" ">> \o TXT_ANSWER \o <<"\n">>) } }
    IN  { [fn |-> "extract", returned |-> FALSE, message |-> [attachments |-> as]] :
          as \in SeqsOf(AttachmentShapes, 0, MaxAttachments) }

\* What the two remote calls of get_query_result may end with: an exception
\* out of the Retry Executor, or a response with or without each of its parts
QueryCalls ==
    LET Manifests ==
            { None } \cup
            { Some([schema |-> sc, total_row_count |-> n]) :
              sc \in { None, Some([columns |-> None]),
                       Some([columns |-> Some(<< [name |-> <<"n">>, type_name |-> None] >>)]) },
              n \in 0..MaxRows }
        ResultParts ==
            { None, Some([data_array |-> None]) } \cup
            { Some([data_array |-> Some([i \in 1..n |-> << <<"v">> >>])]) : n \in 0..MaxRows }
        RemoteFailures == { Raises(exc) : exc \in MainErrors }
        QueryResponses ==
            { Returned([statement_response |-> None]) } \cup
            { Returned([statement_response |->
                          Some([manifest |-> m, result |-> r, statement_id |-> id])]) :
              m \in Manifests, r \in ResultParts, id \in { None, Some(<<>>), Some(<<"s", "1">>) } }
        StatementResponses ==
            { Returned([state |-> st, manifest |-> m, result |-> r]) :
              st \in { None, Some(<<"S", "U", "C", "C", "E", "E", "D", "E", "D">>),
                       Some(ST_FAILED) },
              m \in Manifests, r \in ResultParts }
    IN  { [fn |-> "query", returned |-> FALSE, get_result |-> x, get_statement |-> y] :
          x \in RemoteFailures \cup QueryResponses,
          y \in RemoteFailures \cup StatementResponses }

CallInit ==
    /\ timeout_seconds = TimeoutSeconds
    /\ initial_poll_interval = INITIAL_POLL_INTERVAL
    /\ max_poll_interval = MAX_POLL_INTERVAL
    /\ max_retries = MAX_RETRIES
    /\ now = 0
    /\ msgs = <<>>
    /\ nconv = 0
    /\ store = {}
    /\ askOk = {}
    /\ deleted = {}
    /\ pc = "idle"
    /\ req = NoReq
    /\ start_time = 0
    /\ poll = NoPoll
    /\ outer = NoOuter
    /\ rec = NoRec
    /\ result = None
    /\ obs = NoObs
    /\ faults = 0
    /\ budget = 0
    /\ retry = NoRetry
    /\ call \in StatusCalls \cup LatestCalls \cup ExtractCalls \cup QueryCalls

\* the status of the message is read and classified, as the poll does and as
\* the reconciler does
Classify ==
    /\ call.fn = "classify" /\ ~ call.returned
    /\ LET message == call.message
           status == _get_status_string(message)
       IN  call' = [fn |-> "classify", returned |-> TRUE, message |-> message, status |-> status,
                      is_success |-> _is_terminal_success(status),
                      is_failure |-> _is_terminal_failure(status),
                      poll_class |-> poll_class(status),
                      reconciler_class |-> reconciler_class(status)]
    /\ UNCHANGED <<cfgvars, now, backendvars, appvars, reqvars, faults, budget, retry>>

\* _wait_for_final_message, lines 257-263: the latest message of a listing
\* and whether the cycle counts it as the known one
Latest ==
    /\ call.fn = "latest" /\ ~ call.returned
    /\ LET latest_msg == LatestMessage(call.items)
           latest_id == latest_msg.message_id
       IN  call' = [call EXCEPT !.returned = TRUE] @@
                   [latest_id |-> latest_id, stable |-> latest_id = call.last_known_id]
    /\ UNCHANGED <<cfgvars, now, backendvars, appvars, reqvars, faults, budget, retry>>

\* _extract_result(message), lines 583-617
Extract ==
    /\ call.fn = "extract" /\ ~ call.returned
    /\ call' = [call EXCEPT !.returned = TRUE] @@ [result |-> _extract_result(call.message)]
    /\ UNCHANGED <<cfgvars, now, backendvars, appvars, reqvars, faults, budget, retry>>

\* get_query_result(conversation_id, message_id), lines 405-460
GetQueryResult ==
    /\ call.fn = "query" /\ ~ call.returned
    /\ call' = [call EXCEPT !.returned = TRUE] @@
               [outcome |-> get_query_result(call.get_result, call.get_statement)]
    /\ UNCHANGED <<cfgvars, now, backendvars, appvars, reqvars, faults, budget, retry>>

\* get_query_result is called a second time for the same message: the
\* backend has the same answers as before, and each remote call ends with
\* that answer or fails
GetQueryResultAgain ==
    /\ call.fn = "query" /\ call.returned /\ "again" \notin DOMAIN call
    /\ \E x \in { call.get_result, Raises(ERR_HTTP_503) },
          y \in { call.get_statement, Raises(ERR_HTTP_503) } :
         call' = call @@ [again |-> [get_result |-> x, get_statement |-> y,
                                     outcome |-> get_query_result(x, y)]]
    /\ UNCHANGED <<cfgvars, now, backendvars, appvars, reqvars, faults, budget, retry>>

CallNext == Classify \/ Latest \/ Extract \/ GetQueryResult \/ GetQueryResultAgain

CallSpec == CallInit /\ [][CallNext]_vars

\* ---------------------------------------------------------------- RetrySpec
\* The Retry Executor alone: a client constructed with some max_retries >= 1
\* wraps an operation whose successive invocations end as the run says.
RetryInit ==
    /\ timeout_seconds = TimeoutSeconds
    /\ initial_poll_interval = INITIAL_POLL_INTERVAL
    /\ max_poll_interval = MAX_POLL_INTERVAL
    /\ max_retries \in 1..MaxRetriesBound
    /\ now = 0
    /\ msgs = <<>>
    /\ nconv = 0
    /\ store = {}
    /\ askOk = {}
    /\ deleted = {}
    /\ pc = "idle"
    /\ req = NoReq
    /\ start_time = 0
    /\ poll = NoPoll
    /\ outer = NoOuter
    /\ rec = NoRec
    /\ result = None
    /\ obs = NoObs
    /\ faults = 0
    /\ budget = 0
    /\ retry = NoRetry
    /\ call = NoCall

\* _retry_with_backoff is called on an operation that behaves as some run says
RetryCall ==
    /\ \E c \in RetryCalls :
         /\ c[1] = max_retries
         /\ retry' = [n |-> c[1], run |-> c[2], res |-> c[3]]
         /\ now' = SumSeq(c[3].sleeps)
    /\ UNCHANGED <<cfgvars, backendvars, appvars, reqvars, faults, budget, call>>

RetryNext == RetryCall

RetrySpec == RetryInit /\ [][RetryNext]_vars

\* ================================================================ properties
STR_TIMED_OUT == <<"t", "i", "m", "e", "d", " ", "o", "u", "t">>

\* The statuses that mean the backend gave the message up
FailureSamples == { ST_FAILED, ST_CANCELLED, ST_CANCELED, ST_ABORTED }

\* The result the first poll extracts from the message it watched
OriginalResult == completed_result(outer.conversation_id, rec.original_id, outer.elapsed)

\* The reconciliation adopted a follow-up: last_known_id moved off original_id
Adopted == rec.original_id # 0 /\ rec.last_known_id # rec.original_id

\* r is the extracted result of message id
CarriesMessage(r, id) ==
    /\ r.success
    /\ r.message_id = Some(id)
    /\ r.raw_response = _extract_result([attachments |-> AttachmentsOf(id)]).raw_response
    /\ r.sql_query = _extract_result([attachments |-> AttachmentsOf(id)]).sql_query

\* C1: when the watched message completed, a follow-up appeared and completed
\* and the latest message then stayed the same for
\* FOLLOW_UP_CHAIN_STABLE_CHECKS consecutive listings, the result returned
\* carries the message_id and the content of the follow-up.
C1_StableFollowUpReturned ==
    (pc = "respond" /\ rec.exit = "stable" /\ Adopted
       /\ rec.last_known_id > rec.original_id)
    => CarriesMessage(result[1], rec.last_known_id)

\* C2: a _poll_for_result whose loop runs out of time returns success=false,
\* an error containing "timed out", elapsed_seconds >= timeout_seconds and
\* the ids of the polled message; a question whose first poll fetched no
\* terminal status ends this way.
C2_PollTimesOut ==
    /\ (obs.ended # None /\ obs.ended[1].why = "timeout")
       => LET e == obs.ended[1]
              r == e.r
          IN  /\ ~ r.success
              /\ r.error # None /\ Contains(r.error[1], STR_TIMED_OUT)
              /\ r.elapsed_seconds # None /\ r.elapsed_seconds[1] >= timeout_seconds
              /\ r.conversation_id = Some(e.conversation_id)
              /\ r.message_id = Some(e.message_id)
              /\ e.check_follow_ups => pc = "respond" /\ result = Some(r)
    /\ (pc = "respond" /\ obs.polled /\ obs.observed = "none")
       => obs.ended # None /\ obs.ended[1].why = "timeout" /\ obs.ended[1].check_follow_ups

\* the first poll of a question ran out of time
C2_Witness ==
    /\ pc = "respond"
    /\ obs.ended # None
    /\ obs.ended[1].why = "timeout"
    /\ obs.ended[1].check_follow_ups
    /\ obs.fetched = Some(ST_EXECUTING)
    /\ ~ result[1].success

\* C3: when a status fetch returns FAILED, CANCELLED, CANCELED or ABORTED,
\* the poll returns success=false with a non-empty error, and the first poll
\* of a question does so without any listing of the conversation.
C3_TerminalFailureFails ==
    (obs.fetched # None /\ obs.fetched[1] \in FailureSamples)
    => /\ obs.ended # None
       /\ obs.ended[1].why = "failure"
       /\ ~ obs.ended[1].r.success
       /\ obs.ended[1].r.error # None
       /\ obs.ended[1].r.error[1] # <<>>
       /\ pc = "respond"
       /\ obs.ended[1].check_follow_ups
          => result = Some(obs.ended[1].r) /\ rec.listings = 0 /\ rec = NoRec

\* the first poll of a question fetched CANCELLED
C3_Witness ==
    /\ pc = "respond"
    /\ obs.fetched = Some(ST_CANCELLED)
    /\ obs.ended # None
    /\ obs.ended[1].check_follow_ups
    /\ ~ result[1].success
    /\ rec.listings = 0

\* result r is the failure that surfaces the permanent error perm
Surfaces(r, perm) ==
    /\ r # None
    /\ ~ r[1].success
    /\ r[1].error = Some(perm.msg)

\* C4 as stated: a permanent error of start-conversation, create-message or
\* get-message during polling is surfaced immediately as a failed result
\* with the error's message, and the question makes no further remote call.
C4_PermanentSurfacedAlways ==
    (obs.perm # None
       /\ obs.perm[1].op \in { "start_conversation", "create_message", "get_message" })
    => pc = "respond" /\ Surfaces(result, obs.perm[1])

\* C4: a permanent error of start-conversation or create-message is surfaced
\* immediately as a failed result with the error's message and the question
\* makes no further remote call; a permanent error of get-message during
\* polling is not surfaced: the poll sleeps and goes on to its next turn, and
\* no result of the question carries that error.
C4_PermanentSurfacedAtStart ==
    /\ (obs.perm # None /\ obs.perm[1].op \in { "start_conversation", "create_message" })
       => pc = "respond" /\ Surfaces(result, obs.perm[1]) /\ ~ obs.polled
    /\ (obs.perm # None /\ obs.perm[1].op = "get_message")
       => pc \in { "poll", "respond" } /\ ~ Surfaces(result, obs.perm[1])

\* start_conversation raised a permanent error and the question is answered
C4_Witness ==
    /\ pc = "respond"
    /\ req.kind = "ask"
    /\ obs.perm = Some([op |-> "start_conversation", msg |-> ERR_BAD_SPACE])
    /\ result[1].error = Some(ERR_BAD_SPACE)

Aborted == rec.exit \in { "deadline", "list_error", "empty" }

\* C6 as stated: when the loop is aborted (deadline at the start of a cycle,
\* listing failed or empty) the original message's result is returned, also
\* when a follow-up had been adopted.
C6_AbortKeepsOriginal ==
    (pc = "respond" /\ Aborted) => result = Some(OriginalResult)

\* C6: when the loop is aborted (deadline at the start of a cycle, listing
\* failed or empty) the original message's result is returned if no
\* follow-up had been adopted or the re-fetch of the adopted follow-up
\* fails; otherwise the adopted follow-up's result is returned.
C6_AbortKeepsOriginalUnlessAdopted ==
    (pc = "respond" /\ Aborted)
    => IF ~ Adopted \/ rec.final = "error"
       THEN result = Some(OriginalResult)
       ELSE /\ rec.final = "ok"
            /\ CarriesMessage(result[1], rec.last_known_id)
            /\ result[1].conversation_id = Some(outer.conversation_id)

\* the deadline ended the loop after a follow-up had been adopted, and the
\* follow-up's result is returned
C6_Witness ==
    /\ pc = "respond"
    /\ rec.exit = "deadline"
    /\ Adopted
    /\ rec.final = "ok"
    /\ result[1].message_id = Some(rec.last_known_id)

\* C7: a call of ask or continue_conversation lets no exception escape and
\* produces exactly one result, which is there when the call has returned
\* and not before.
C7_ExactlyOneResultNoException ==
    /\ ~ obs.escaped
    /\ pc = "respond" => obs.produced = 1 /\ result # None
    /\ pc # "respond" => obs.produced = 0 /\ result = None

\* continue_conversation answered a question whose create_message raised
C7_Witness ==
    /\ pc = "respond"
    /\ req.kind = "continue"
    /\ obs.produced = 1
    /\ obs.perm # None
    /\ obs.perm[1].op = "create_message"
    /\ ~ result[1].success

\* C8: every row of the ownership store names a conversation that a
\* new-conversation ask returned with success=true to that user: a failed or
\* timed-out question records nothing and a continuing question inserts
\* nothing.
C8_StoreOnlySuccessfulAsks ==
    store \subseteq askOk

\* a new question was recorded, then a question continuing its conversation
\* was answered
C8_Witness ==
    /\ pc = "idle"
    /\ store = { <<"alice", 1>> }
    /\ Len(msgs) = 2
    /\ msgs[2].conv = 1
    /\ budget = MaxRequests - 2

\* Error messages the classifier must deem non-retryable, and retryable
PermanentSamples == { ERR_BAD_SPACE, ERR_NOT_FOUND }
TransientSamples == { ERR_HTTP_503, ERR_CONNECTION }

\* C9: in _retry_with_backoff, an attempt that raises a non-retryable error
\* ends the call at once: that very error is raised, func has been invoked
\* once per attempt made so far, every earlier failure was followed by its
\* sleep but this one by none, and no later attempt is made.
C9_NonRetryableRaisedAtOnce ==
    \A k \in 1..Len(retry.run.outs) :
        (~ retry.run.outs[k].ok /\ retry.run.outs[k].err \in PermanentSamples)
        => /\ retry.res.kind = "raise"
           /\ retry.res.exc = Some(retry.run.outs[k].err)
           /\ retry.res.at = k
           /\ retry.res.invocations = k
           /\ Len(retry.res.sleeps) = k - 1
           /\ k = Len(retry.run.outs)

\* a call whose second attempt raised a non-retryable error
C9_Witness ==
    /\ retry.n >= 2
    /\ Len(retry.run.outs) = 2
    /\ retry.run.outs[1].err \in TransientSamples
    /\ retry.run.outs[2].err = ERR_BAD_SPACE
    /\ retry.res.kind = "raise"
    /\ retry.res.invocations = 2

\* C10: in _retry_with_backoff with max_retries = n >= 1, func is invoked at
\* most n times; the first invocation that succeeds ends the call with its
\* value; when all n invocations raise retryable errors there are exactly
\* n - 1 sleeps, the k-th (k = 0..n-2) of RETRY_BASE_DELAY * 2^k plus its
\* jitter, and the error of the last invocation is raised.
C10_BoundedAttemptsAndBackoff ==
    retry.n >= 1 =>
        LET outs == retry.run.outs
            res == retry.res
            n == retry.n
        IN  /\ res.invocations <= n
            /\ \A k \in 1..Len(outs) :
                   (outs[k].ok /\ \A j \in 1..(k - 1) : ~ outs[j].ok)
                   => res.kind = "return" /\ res.at = k /\ res.invocations = k
            /\ (Len(outs) = n /\ \A k \in 1..n : ~ outs[k].ok /\ outs[k].err \in TransientSamples)
               => /\ res.kind = "raise"
                  /\ res.exc = Some(outs[n].err)
                  /\ res.invocations = n
                  /\ Len(res.sleeps) = n - 1
                  /\ Len(retry.run.jit) = n - 1
                  /\ \A k \in 0..(n - 2) :
                         res.sleeps[k + 1] - retry.run.jit[k + 1] = RETRY_BASE_DELAY * Pow2(k)

\* a call with max_retries = 3 whose three invocations raised retryable errors
C10_Witness ==
    /\ retry.n = 3
    /\ Len(retry.run.outs) = 3
    /\ \A k \in 1..3 : retry.run.outs[k].err \in TransientSamples
    /\ retry.res.kind = "raise"
    /\ Len(retry.res.sleeps) = 2
    /\ retry.res.sleeps[2] >= 2

\* The step is a sleep of the running _poll_for_result
PollSlept ==
    /\ pc = "poll" /\ pc' = "poll"
    /\ poll'.message_id = poll.message_id
    /\ now' > now

\* C11: whatever initial_poll_interval and max_poll_interval the client was
\* constructed with, every interval a _poll_for_result sleeps is at most
\* max_poll_interval and the interval of the next sleep is not smaller.
C11_IntervalsMonotoneCapped ==
    [][PollSlept => /\ poll.current_poll_interval <= max_poll_interval
                    /\ poll'.current_poll_interval >= poll.current_poll_interval]_vars

\* The statuses the evaluator names
RecognizedSuccess == { ST_COMPLETED }
RecognizedFailure == { ST_FAILED, ST_CANCELLED, ST_CANCELED, ST_ABORTED }

\* C12: every status string gets exactly one class: a status that is not one
\* of the named ones, or a missing one, is non-terminal, none is both
\* terminal-success and terminal-failure, and the poll and the reconciler
\* give a status the same class.
C12_OneClassPerStatus ==
    (call.fn = "classify" /\ call.returned)
    => /\ ~ (call.is_success /\ call.is_failure)
       /\ call.poll_class = call.reconciler_class
       /\ call.status \notin (RecognizedSuccess \cup RecognizedFailure)
          => call.poll_class = "non-terminal"

\* Every listing of the reconciliation so far returned messages and had the
\* watched message as its latest; obs.same counts them
OnlyWatchedLatest == obs.observed = "success" /\ ~ obs.other

\* time spent in _wait_for_final_message so far
ReconcileSeconds == now - start_time - outer.elapsed

\* C13: when the watched message was seen terminal-success and every listing
\* since had the watched message as its latest, the reconciler makes exactly
\* FOLLOW_UP_INITIAL_STABLE_CHECKS listings, a settle sleep before each, and
\* returns None: the request returns success with the message_id, the
\* conversation_id, the answer text and the query text of the watched
\* message.  Fewer listings are made only when the loop is left by break.
C13_StableAfterInitialChecks ==
    OnlyWatchedLatest
    => /\ obs.same <= FOLLOW_UP_INITIAL_STABLE_CHECKS
       /\ obs.same = FOLLOW_UP_INITIAL_STABLE_CHECKS
          => /\ pc = "respond"
             /\ rec.listings = FOLLOW_UP_INITIAL_STABLE_CHECKS
             /\ ReconcileSeconds >= FOLLOW_UP_INITIAL_STABLE_CHECKS * FOLLOW_UP_SETTLE_SECONDS
             /\ faults = MaxFaults
                => ReconcileSeconds = FOLLOW_UP_INITIAL_STABLE_CHECKS * FOLLOW_UP_SETTLE_SECONDS
             /\ result # None
             /\ CarriesMessage(result[1], outer.message_id)
             /\ result[1].conversation_id = Some(outer.conversation_id)
       /\ (pc = "respond" /\ obs.same < FOLLOW_UP_INITIAL_STABLE_CHECKS)
          => Aborted

\* three listings in a conversation of two messages, the watched one the
\* latest each time, and the request returns
C13_Witness ==
    /\ pc = "respond"
    /\ OnlyWatchedLatest
    /\ obs.same = FOLLOW_UP_INITIAL_STABLE_CHECKS
    /\ Len(msgs) = 2
    /\ result[1].success

\* The deadline of the question in flight has passed
PastDeadline == now - start_time >= timeout_seconds

\* C14: the deadline of a question is start_time + timeout_seconds, start_time
\* taken when ask / continue_conversation starts and never changed while the
\* question is in flight; the first poll and every nested poll are given this
\* start_time; once now - start_time >= timeout_seconds a poll makes no
\* further fetch and sleep but ends, and the reconciliation makes no further
\* settle sleep and listing but leaves its loop.
C14_OneDeadline ==
    [][/\ (pc # "idle" /\ pc' # "idle") => start_time' = start_time
       /\ pc = "poll" => poll.start_time = start_time
       /\ (pc = "poll" /\ msgs' = msgs /\ PastDeadline)
          => /\ pc' = "respond"
             /\ now' = now
             /\ faults' = faults
             /\ obs'.fetched = obs.fetched
       /\ (pc = "reconcile" /\ msgs' = msgs /\ PastDeadline)
          => /\ pc' = "final"
             /\ now' = now
             /\ faults' = faults
             /\ rec'.listings = rec.listings]_vars

\* the nested poll of a follow-up ran into the deadline of the question
C14_Witness ==
    /\ pc = "respond"
    /\ rec.exit = "nested_failed"
    /\ obs.ended # None
    /\ obs.ended[1].why = "timeout"
    /\ ~ obs.ended[1].check_follow_ups
    /\ now - start_time >= timeout_seconds

\* C15: a status fetch that failed even after the retries does not end the
\* poll: the poll sleeps its current interval and goes on with the next
\* one, no result is produced; when a later fetch of the question then
\* returns a terminal-success status the request succeeds, and when it
\* returns a terminal-failure status the request returns the failure the
\* backend reported for the polled message.
C15_FetchFailureIsNotFinal ==
    [][/\ (pc = "poll" /\ msgs' = msgs /\ ~ PastDeadline
               /\ obs'.fetch_failed /\ obs'.fetched = None)
          => /\ pc' = "poll"
             /\ poll'.message_id = poll.message_id
             /\ now' >= now + poll.current_poll_interval
             /\ poll'.current_poll_interval >= poll.current_poll_interval
             /\ result' = None
       /\ (pc' = "respond" /\ obs'.fetch_failed /\ obs'.observed = "success")
          => result'[1].success
       /\ (pc' = "respond" /\ obs'.fetch_failed /\ obs'.observed = "failure")
          => /\ ~ result'[1].success
             /\ result'[1].message_id = Some(obs'.ended[1].message_id)
             /\ \E status \in FailureSamples :
                  /\ Upper(obs'.fetched[1]) = status
                  /\ result'[1].error[1] \in MessageErrorStrings(status)]_vars

\* a fetch of the first poll failed, a later one returned a terminal-failure
\* status and the request returned that failure
C15_Witness ==
    /\ pc = "respond"
    /\ obs.fetch_failed
    /\ obs.observed = "failure"
    /\ ~ result[1].success

\* a fetch of the first poll failed, a later one returned a terminal-success
\* status and the request returned success
C15_WitnessSuccess ==
    /\ pc = "respond"
    /\ obs.fetch_failed
    /\ obs.observed = "success"
    /\ result[1].success

\* the largest last_updated_timestamp of the listing is on last_known_id and
\* on another message as well
TiedWithKnown(items, last_known_id) ==
    \E i, j \in 1..Len(items) :
      /\ items[i].message_id = last_known_id
      /\ items[j].message_id # last_known_id
      /\ items[i].last_updated_timestamp = items[j].last_updated_timestamp
      /\ \A k \in 1..Len(items) :
           items[k].last_updated_timestamp <= items[i].last_updated_timestamp

\* C16: a reconciliation cycle whose listing has the largest
\* last_updated_timestamp on last_known_id and on another message as well
\* takes the known message for the latest, whatever the order of the
\* listing: the cycle counts as stable, no message is taken for new.
C16_TieKeepsKnown ==
    (call.fn = "latest" /\ call.returned /\ TiedWithKnown(call.items, call.last_known_id))
    => call.latest_id = call.last_known_id /\ call.stable

\* C17: the message of a second question, sent into the conversation while
\* the first question is being reconciled, is taken for a follow-up like any
\* other message of the listing: when the first request has adopted it and
\* fetched it at the end, the answer to the first question carries the
\* message_id and the content of the second question's message, not those
\* of its own.
C17_SecondQuestionAdopted ==
    (pc = "respond" /\ obs.second # 0 /\ rec.last_known_id = obs.second
        /\ rec.exit # "stable" /\ rec.final = "ok")
    => /\ CarriesMessage(result[1], obs.second)
       /\ result[1].message_id # Some(outer.message_id)
       /\ result[1].raw_response # OriginalResult.raw_response

\* the first request returns the second question's message
C17_Witness ==
    /\ pc = "respond"
    /\ obs.second # 0
    /\ obs.second # outer.message_id
    /\ result # None
    /\ result[1].success
    /\ result[1].message_id = Some(obs.second)

\* A follow-up lead-in phrase, in lower case
LEAD_IN_WOULD_YOU_LIKE == <<"w", "o", "u", "l", "d", " ", "y", "o", "u", " ", "l", "i", "k", "e">>

\* the last line of a text
RECURSIVE LastLine(_)
LastLine(text) ==
    IF \E i \in 1..Len(text) : text[i] = "\n"
    THEN LastLine(Tail(text))
    ELSE text

\* the texts of the attachments without a query, in attachment order
RECURSIVE CommentaryTexts(_)
CommentaryTexts(attachments) ==
    IF attachments = <<>> THEN <<>>
    ELSE (IF Head(attachments).query = None /\ Head(attachments).text # None
          THEN Head(attachments).text ELSE <<>>) \o CommentaryTexts(Tail(attachments))

\* the commentary of the message ends with a line that starts with the
\* lead-in phrase
EndsWithFollowUp(message) ==
    LET texts == CommentaryTexts(message.attachments)
    IN  /\ texts # <<>>
        /\ LET line == LastLine(texts[Len(texts)])
           IN  /\ Len(line) >= Len(LEAD_IN_WOULD_YOU_LIKE)
               /\ Lower(SubSeq(line, 1, Len(LEAD_IN_WOULD_YOU_LIKE))) = LEAD_IN_WOULD_YOU_LIKE

\* C18: when the commentary of the completed message ends with a line that
\* starts with a follow-up lead-in phrase, the extracted result has that
\* line in a follow-up field of its own and its raw_response does not
\* contain the line.
C18_FollowUpSplitOff ==
    (call.fn = "extract" /\ call.returned /\ EndsWithFollowUp(call.message))
    => LET texts == CommentaryTexts(call.message.attachments)
           line == LastLine(texts[Len(texts)])
       IN  /\ "followup" \in DOMAIN call.result
           /\ ~ Contains(call.result.raw_response, line)

\* the generated queries of the attachments that carry one, in attachment order
RECURSIVE QueriesOf(_)
QueriesOf(attachments) ==
    IF attachments = <<>> THEN <<>>
    ELSE Head(attachments).query \o QueriesOf(Tail(attachments))

\* C19: the sql_query extracted from a message with several attachments
\* that carry a generated query is the query of the first of them.
C19_FirstQueryWins ==
    (call.fn = "extract" /\ call.returned /\ Len(QueriesOf(call.message.attachments)) >= 2)
    => call.result.sql_query = Some(QueriesOf(call.message.attachments)[1])

\* C20: get_query_result raises nothing, and what it returns is either a
\* dict with the key "error" and no other key, or a dict with exactly the
\* keys columns, rows and total_rows: with inline data, through the statement
\* fallback, and when a remote call failed.
C20_TwoShapesNoRaise ==
    (call.fn = "query" /\ call.returned)
    => /\ call.outcome.kind = "return"
       /\ \/ DOMAIN call.outcome.value = { "error" }
          \/ DOMAIN call.outcome.value = { "columns", "rows", "total_rows" }

\* the inline data was missing, the fallback was taken and its remote call
\* failed: an error dict is returned
C20_Witness ==
    /\ call.fn = "query" /\ call.returned
    /\ call.get_result.kind = "return"
    /\ call.get_result.value.statement_response # None
    /\ call.get_result.value.statement_response[1].manifest # None
    /\ call.get_result.value.statement_response[1].manifest[1].schema # None
    /\ call.get_result.value.statement_response[1].result = None
    /\ call.get_result.value.statement_response[1].statement_id = Some(<<"s", "1">>)
    /\ call.get_statement.kind = "raise"
    /\ call.outcome.kind = "return"
    /\ DOMAIN call.outcome.value = { "error" }

\* the fallback was taken and returned the rows of the statement
C20_WitnessFallbackRows ==
    /\ call.fn = "query" /\ call.returned
    /\ call.get_result.kind = "return"
    /\ call.get_result.value.statement_response # None
    /\ call.get_result.value.statement_response[1].manifest # None
    /\ call.get_result.value.statement_response[1].manifest[1].schema # None
    /\ call.get_result.value.statement_response[1].result = None
    /\ call.get_result.value.statement_response[1].statement_id = Some(<<"s", "1">>)
    /\ call.get_statement.kind = "return"
    /\ call.outcome.kind = "return"
    /\ DOMAIN call.outcome.value = { "columns", "rows", "total_rows" }
    /\ Len(call.outcome.value.rows) = MaxRows

\* the statement ids a call of get_query_result fetched through the fallback
Fetched(outcome) == IF "fetched" \in DOMAIN outcome THEN outcome.fetched ELSE <<>>

\* C21: when the response of get_query_result has a manifest, inline rows
\* (data_array not None, the empty array included) are returned as they are
\* and nothing is fetched; without data_array and with a statement id exactly
\* one fallback fetch is made, for that id; without data_array and without
\* statement id the result is columns, no rows, total_rows 0, not an error.
C21_InlineFallbackEmpty ==
    (/\ call.fn = "query" /\ call.returned
     /\ call.get_result.kind = "return"
     /\ call.get_result.value.statement_response # None
     /\ call.get_result.value.statement_response[1].manifest # None)
    => LET stmt == call.get_result.value.statement_response[1]
           inline == stmt.result # None /\ stmt.result[1].data_array # None
           has_id == stmt.statement_id # None /\ stmt.statement_id[1] # <<>>
           out == call.outcome
       IN  /\ inline
              => /\ Fetched(out) = <<>>
                 /\ "error" \notin DOMAIN out.value
                 /\ out.value.rows = stmt.result[1].data_array[1]
                 /\ out.value.total_rows = stmt.manifest[1].total_row_count
           /\ (~ inline /\ has_id) => Fetched(out) = <<stmt.statement_id[1]>>
           /\ (~ inline /\ ~ has_id)
              => /\ Fetched(out) = <<>>
                 /\ "error" \notin DOMAIN out.value
                 /\ out.value.rows = <<>>
                 /\ out.value.total_rows = 0

\* the same, for a manifest that has a schema
C21_WithSchema ==
    (/\ call.fn = "query" /\ call.returned
     /\ call.get_result.kind = "return"
     /\ call.get_result.value.statement_response # None
     /\ call.get_result.value.statement_response[1].manifest # None
     /\ call.get_result.value.statement_response[1].manifest[1].schema = None)
    \/ C21_InlineFallbackEmpty

\* get_query_result was called twice for the same message
CalledTwice == call.fn = "query" /\ call.returned /\ "again" \in DOMAIN call

\* the dict has columns, rows and total_rows
HasRows(value) == { "columns", "rows", "total_rows" } \subseteq DOMAIN value

C23_ListingHasAllStarted ==
    [][(call' # call /\ call'.fn = "list_conversations")
       => \A c \in 1..nconv :
            (<<call'.user, c>> \in askOk /\ <<call'.user, c>> \notin deleted)
            => \E conv \in call'.conversations : conv.id = c]_vars

\* ---------------------------------------------------------------------- C24
\* the threshold the claim states for the reconciler's locals r
StatedThreshold(r) ==
    IF r.last_known_id = r.original_id THEN 3 ELSE 6

\* C24: consecutive_stable counts only listings in a row whose latest message
\* is last_known_id (every such listing but the one that adopted it), a
\* listing whose latest message differs leaves it at 0, stability is declared
\* when it reaches 3 while last_known_id is the original and 6 once it
\* differs, so after an adoption stability is never declared with fewer than
\* 6 listings in a row showing the same latest message.
C24_StableCounter ==
    rec.original_id # 0 =>
      /\ IF obs.latest = rec.last_known_id
         THEN rec.consecutive_stable \in { obs.unchanged - 1, obs.unchanged }
         ELSE rec.consecutive_stable = 0
      /\ rec.exit = "none" => rec.consecutive_stable < StatedThreshold(rec)
      /\ rec.exit = "stable"
           => /\ obs.latest = rec.last_known_id
              /\ rec.consecutive_stable = StatedThreshold(rec)
              /\ obs.unchanged >= StatedThreshold(rec)

\* stability was declared after an adoption, the counter having been reset
\* by a listing that showed another message
C24_Witness ==
    /\ rec.exit = "stable"
    /\ Adopted
    /\ obs.unchanged >= 6
    /\ rec.listings > 7

\* ---------------------------------------------------------------------- C25
\* a question is with ask / continue_conversation
InCall == pc \in { "start", "poll", "reconcile", "final" }

\* C25: a call of the reconciler makes at most 20 listings, whatever the
\* backend does, a new latest message in every cycle included; and a call
\* of ask / continue_conversation that runs on returns.
C25_ReconcilerTerminates ==
    /\ [](rec.listings <= 20)
    /\ InCall ~> (pc = "respond" /\ obs.produced = 1)

\* the hard cap ended the loop: 20 listings, each but the first with a latest
\* message other than the one before, and the call returned
C25_Witness ==
    /\ pc = "respond"
    /\ rec.exit = "cap"
    /\ rec.listings = 20
    /\ rec.consecutive_stable = 0

\* ---------------------------------------------------------------------- C26
\* the last listing showed a latest message that the reconciler did not make
\* its last_known_id
FollowUpNotAdopted ==
    rec.original_id # 0 /\ obs.latest \notin { 0, rec.last_known_id }

\* C26: when the latest message of a listing is a new one whose status is a
\* terminal failure, or one whose nested poll returns without success, the
\* reconciler makes no further listing and no final fetch and returns None:
\* the request is answered with the result of the original message, also
\* when a follow-up had been adopted before.
C26_FailedFollowUpKeepsOriginal ==
    /\ (pc # "poll" /\ FollowUpNotAdopted)
         => /\ rec.exit \in { "followup_failed", "nested_failed" }
            /\ rec.exit = "followup_failed" => msgs[obs.latest].phase = "failed"
            /\ rec.exit = "nested_failed"
                 => /\ obs.ended # None
                    /\ ~ obs.ended[1].check_follow_ups
                    /\ obs.ended[1].message_id = obs.latest
                    /\ ~ obs.ended[1].r.success
    /\ rec.exit \in { "followup_failed", "nested_failed" }
         => /\ FollowUpNotAdopted
            /\ pc = "respond"
            /\ rec.final = "none"
            /\ result = Some(OriginalResult)
            /\ CarriesMessage(result[1], rec.original_id)

\* a follow-up was adopted, the next one failed, the request returns
C26_Witness ==
    /\ rec.exit = "followup_failed"
    /\ Adopted
    /\ pc = "respond"
    /\ rec.last_known_id # obs.latest

\* ---------------------------------------------------------------------- C27
\* _poll_for_result runs for _wait_for_final_message
NestedPoll == pc = "poll" /\ rec.original_id # 0

\* C27: the reconciler polls a latest message that is not terminal with
\* follow-up checking disabled; while that poll runs no listing is made and
\* the reconciler is not entered again (its original_id and the suspended
\* first poll stay as they are); last_known_id changes only when the poll
\* returns success, and then to the message polled; when it returns without
\* success last_known_id stays and the request is answered.
C27_NestedPollDoesNotReconcile ==
    [][/\ (pc = "reconcile" /\ pc' = "poll")
            => /\ ~ poll'.check_follow_ups
               /\ poll'.message_id # rec.last_known_id
               /\ msgs[poll'.message_id].phase = "pending"
       /\ NestedPoll
            => /\ ~ poll.check_follow_ups
               /\ rec'.listings = rec.listings
               /\ rec'.original_id = rec.original_id
               /\ outer' = outer
               /\ pc' \in { "poll", "reconcile", "respond" }
               /\ pc' = "poll" => rec' = rec
               /\ pc' = "reconcile"
                    => /\ rec'.last_known_id = poll.message_id
                       /\ msgs[poll.message_id].phase = "completed"
                       /\ obs'.fetched = Some(ST_COMPLETED)
               /\ pc' = "respond"
                    => /\ rec'.last_known_id = rec.last_known_id
                       /\ result' # None
                       /\ result'[1].message_id = Some(rec.original_id)]_vars

\* a nested poll that slept once returned success: the follow-up is the
\* last_known_id and the reconciler goes on
C27_Witness ==
    /\ pc = "reconcile"
    /\ Adopted
    /\ rec.last_known_id = obs.latest
    /\ rec.consecutive_stable = 0
    /\ now - start_time - outer.elapsed > rec.listings * FOLLOW_UP_SETTLE_SECONDS

\* ---------------------------------------------------------------------- C28
\* the texts of the attachments with a query, in attachment order
RECURSIVE QueryTexts(_)
QueryTexts(attachments) ==
    IF attachments = <<>> THEN <<>>
    ELSE (IF Head(attachments).query # None /\ Head(attachments).text # None
          THEN Head(attachments).text ELSE <<>>) \o QueryTexts(Tail(attachments))

\* C28: the answer text extracted from a message is the texts of its query
\* attachments in attachment order, then the texts of its commentary
\* attachments in attachment order, joined with a newline, with the white
\* space around the whole removed; the text of a commentary attachment that
\* precedes a query attachment comes after the query attachment's text.
C28_AnswerBeforeCommentary ==
    (call.fn = "extract" /\ call.returned)
    => LET attachments == call.message.attachments
           answer == call.result.raw_response
       IN  /\ answer = Strip(Join(QueryTexts(attachments) \o CommentaryTexts(attachments),
                                  <<"\n">>))
           /\ answer # <<>> => answer[1] \notin Whitespace /\ answer[Len(answer)] \notin Whitespace
           /\ call.result.success

\* a commentary attachment with white space around its text precedes a query
\* attachment: the answer starts with the query attachment's text and ends
\* with the commentary, trimmed
C28_Witness ==
    /\ call.fn = "extract" /\ call.returned
    /\ Len(call.message.attachments) = 2
    /\ LET first == call.message.attachments[1]
           second == call.message.attachments[2]
       IN  /\ first.query = None /\ first.text # None
           /\ second.query # None /\ second.text # None
           /\ first.text[1][1] = " "
           /\ call.result.raw_response = second.text[1] \o <<"\n">> \o RStrip(first.text[1])
           /\ call.result.raw_response # Strip(first.text[1] \o <<"\n">> \o second.text[1])

\* ---------------------------------------------------------------------- C29
\* C29: the reconciler moves last_known_id only to a message it has just
\* seen completed, as the latest of a listing or at the end of the nested
\* poll of that message; and a result it returns in place of the original
\* one carries the message_id of last_known_id, which is then not the
\* original message: no message is returned as the final answer without
\* having been seen completed during the call.
C29_SupersedingWasSeenCompleted ==
    [][/\ (rec.original_id # 0 /\ rec'.original_id = rec.original_id
             /\ rec'.last_known_id # rec.last_known_id)
            => /\ msgs[rec'.last_known_id].phase = "completed"
               /\ \/ pc = "reconcile" /\ obs'.latest = rec'.last_known_id
                  \/ /\ NestedPoll
                     /\ poll.message_id = rec'.last_known_id
                     /\ obs'.fetched = Some(ST_COMPLETED)
       /\ (pc = "final" /\ rec'.final = "ok")
            => /\ result' # None
               /\ result'[1].success
               /\ result'[1].message_id = Some(rec.last_known_id)
               /\ result'[1].message_id # Some(rec.original_id)
               /\ result'[1].message_id # Some(outer.message_id)
               /\ msgs[rec.last_known_id].phase = "completed"
       /\ (rec.original_id # 0 /\ result = None /\ result' # None /\ rec'.final # "ok")
            => result'[1].message_id = Some(rec.original_id)]_vars

\* a follow-up seen completed in a listing was returned in place of the
\* original message after the loop was left at the deadline
C29_Witness ==
    /\ pc = "respond"
    /\ rec.final = "ok"
    /\ rec.exit = "deadline"
    /\ result[1].message_id = Some(rec.last_known_id)
    /\ rec.last_known_id = obs.latest
    /\ rec.last_known_id # rec.original_id

\* ---------------------------------------------------------------------- C30
\* a reconciling call has returned: with the original message, or with a
\* follow-up in its place
OriginalStands ==
    pc = "respond" /\ rec.original_id # 0 /\ result # None /\ rec.final # "ok"
Superseded ==
    pc = "respond" /\ rec.original_id # 0 /\ result # None /\ rec.final = "ok"

\* C30 as stated: when the original message is the final answer its
\* elapsed_seconds is the time the first poll saw it complete, so that the
\* reconciliation wait, at least 3 settle intervals, is not in it and it is
\* smaller than the time from submission to return; when a follow-up is
\* returned in its place elapsed_seconds is the time after the final fetch,
\* the reconciliation included.
C30_ElapsedOfOriginalExcludesThreeSettles ==
    /\ OriginalStands
         => /\ result[1].elapsed_seconds = Some(outer.elapsed)
            /\ ReconcileSeconds >= 3 * FOLLOW_UP_SETTLE_SECONDS
            /\ outer.elapsed < now - start_time
    /\ Superseded
         => /\ result[1].elapsed_seconds = Some(now - start_time)
            /\ now - start_time >= outer.elapsed + FOLLOW_UP_SETTLE_SECONDS

\* C30 as the code has it: the reconciliation wait that is left out of the
\* original's elapsed_seconds is one settle interval per listing made; that
\* is 3 or more only when the reconciler declared the conversation stable,
\* at least one when it stopped for a failed or empty listing or a failed
\* follow-up, and none when the deadline had passed before the first cycle.
C30_ElapsedOfOriginalExcludesWait ==
    /\ OriginalStands
         => /\ result[1].elapsed_seconds = Some(outer.elapsed)
            /\ result[1].message_id = Some(rec.original_id)
            /\ ReconcileSeconds >= rec.listings * FOLLOW_UP_SETTLE_SECONDS
            /\ outer.elapsed + ReconcileSeconds = now - start_time
            /\ rec.exit = "stable" => rec.listings >= 3
            /\ rec.exit # "deadline" => rec.listings >= 1 /\ outer.elapsed < now - start_time
    /\ Superseded
         => /\ result[1].elapsed_seconds = Some(now - start_time)
            /\ result[1].message_id = Some(rec.last_known_id)
            /\ now - start_time >= outer.elapsed + FOLLOW_UP_SETTLE_SECONDS

\* the original message is returned one settle interval after it was seen
\* complete, the first listing having shown a failed follow-up
C30_Witness ==
    /\ OriginalStands
    /\ rec.exit = "followup_failed"
    /\ rec.listings = 1
    /\ ReconcileSeconds = FOLLOW_UP_SETTLE_SECONDS
    /\ result[1].elapsed_seconds = Some(outer.elapsed)

\* ---------------------------------------------------------------------- C31
\* C31: the call of start_conversation that ask makes through the Retry
\* Executor leaves at most one new conversation at the backend, and the call
\* of create_message that continue_conversation makes at most one new
\* message and no conversation, also when an invocation that was retried
\* had taken effect.
C31_AtMostOneCreated ==
    [][/\ (pc = "start" /\ req.kind = "ask")
            => nconv' <= nconv + 1 /\ Len(msgs') <= Len(msgs) + 1
       /\ (pc = "start" /\ req.kind = "continue")
            => nconv' = nconv /\ Len(msgs') <= Len(msgs) + 1]_vars
====
